---- MODULE Spec2Model ----
(***************************************************************************)
(* A model of the runtime artifacts that EIPC's wireInterface and          *)
(* wireValidator generate: the privileged (browser process) dispatchers,   *)
(* the cooperative (preload) stubs, the event / store subscriptions and    *)
(* the React store hook.                                                   *)
(*                                                                         *)
(* JavaScript strings that the code takes apart or concatenates (URLs,     *)
(* validator literals) are sequences of tokens; other strings are TLA+     *)
(* strings.                                                                *)
(***************************************************************************)
EXTENDS Integers, Sequences, FiniteSets, TLC

VARIABLES
    calls,        \* SpecDispatch: one record per incoming call
    hook,         \* SpecHook: the state of one use<Store>Store() instance
    fetch,        \* SpecHook: the store.getState() promise of the hook
    pushes,       \* SpecHook: update messages sent and not yet delivered
    counterValue, \* SpecHook: the store state owned by the main process
    pushCount,    \* SpecHook: number of update broadcasts so far
    listeners,    \* SpecSub/SpecHook: ipcRenderer's listeners, per channel
    subs,         \* SpecSub: the subscriptions made so far
    delivered,    \* SpecSub: what each subscription's fn has been called with
    sent,         \* SpecPush: the event messages the dispatch primitive has sent
    bridged,      \* SpecPush: what the preload script put on the context bridge
    build,        \* SpecCompile: one run of buildWiring
    tracing,      \* SpecSubType: one trace of a subtype to its base primitive
    folder,       \* SpecGenerate: the wiring folder and one run of generateWiring
    registry      \* SpecImpl: the handlers registered on each target's ipc

vars == <<calls, hook, fetch, pushes, counterValue, pushCount, listeners, subs, delivered,
          sent, bridged, build, tracing, folder, registry>>

(***************************************************************************)
(* Bounds of the model.                                                    *)
(***************************************************************************)
MaxCalls == 2
MaxPush == 2
MaxSubs == 2
MaxUnsubCalls == 2
MaxEvents == 2
MaxMethods == 2
MaxElements == 4
MaxOptions == 2
MaxConditions == 2
MaxBranches == 2
MaxRestrictions == 1
MaxImpls == 2

(***************************************************************************)
(* JavaScript values.                                                      *)
(***************************************************************************)
JSUndefined == [t |-> "undefined", v |-> "", elems |-> <<>>]
JSNull == [t |-> "null", v |-> "", elems |-> <<>>]
JSNumber(n) == [t |-> "number", v |-> n, elems |-> <<>>]
JSString(s) == [t |-> "string", v |-> s, elems |-> <<>>]
JSBoolean(b) == [t |-> "boolean", v |-> b, elems |-> <<>>]
JSArray(es) == [t |-> "array", v |-> "", elems |-> es]

\* typeof x
TypeOf(x) == IF x.t \in {"null", "array"} THEN "object" ELSE x.t

\* String(x) for a value that is not an Error, as a token sequence
\* (the empty string is the empty sequence)
RECURSIVE StringOf(_)
StringOf(x) ==
    CASE x.t = "undefined" -> <<"undefined">>
      [] x.t = "null" -> <<"null">>
      [] x.t = "array" ->
            IF x.elems = <<>> THEN <<>>
            ELSE IF Len(x.elems) = 1
                 THEN (IF x.elems[1].t \in {"undefined", "null"} THEN <<>> ELSE StringOf(x.elems[1]))
                 ELSE <<"<joined>">>
      [] OTHER -> IF x.v = "" THEN <<>> ELSE <<x.v>>

\* What a throw statement can carry: an Error with a message, or any value.
ErrorObject(msg) == [isError |-> TRUE, message |-> msg, value |-> JSUndefined]
ThrownValue(x) == [isError |-> FALSE, message |-> <<>>, value |-> x]

(***************************************************************************)
(* Argument / result predicates (wiring/interface.ts).                     *)
(***************************************************************************)
basePrimitives == {"string", "number", "boolean", "unknown"}

\* _constants.ts validator(symbolName)(arg): the predicate of a declared type.
\* The schema modelled here declares no named types.
DeclaredTypeValidator(symbolName, arg) == FALSE

TypeRef(reference, array) == [reference |-> reference, array |-> array]

RECURSIVE validatorFnOrPrimitiveValidator(_, _, _, _)
validatorFnOrPrimitiveValidator(type, arg, nullable, optional) ==
    LET baseType == type.reference
        primitive == IF baseType \in basePrimitives
                     THEN TypeOf(arg) = baseType
                     ELSE DeclaredTypeValidator(baseType, arg)
        base1 == IF baseType = "unknown" THEN TRUE ELSE primitive
        base2 == IF type.array
                 THEN /\ arg.t = "array"
                      /\ \A i \in DOMAIN arg.elems :
                            validatorFnOrPrimitiveValidator(
                                [type EXCEPT !.array = FALSE], arg.elems[i], FALSE, FALSE)
                 ELSE base1
        base3 == IF nullable THEN (arg = JSNull \/ base2) ELSE base2
    IN  IF optional THEN (arg = JSUndefined \/ base3) ELSE base3

(***************************************************************************)
(* Access validators (wiring/validator.ts).                                *)
(***************************************************************************)
NoExpression == "null"

variables ==
    [ is_main_frame |->
        [depends_on_url |-> FALSE, renderer_depends_on_webframe |-> TRUE,
         browser |-> "event.senderFrame?.parent === null",
         renderer |-> "webFrame.top?.frameToken === webFrame.frameToken",
         custom_expression |-> NoExpression, type |-> "Boolean"],
      is_packaged |->
        [depends_on_url |-> FALSE, renderer_depends_on_webframe |-> FALSE,
         browser |-> "$$app$$.isPackaged",
         renderer |-> NoExpression,
         custom_expression |-> NoExpression, type |-> "Boolean"],
      protocol |->
        [depends_on_url |-> TRUE, renderer_depends_on_webframe |-> FALSE,
         browser |-> NoExpression, renderer |-> NoExpression,
         custom_expression |-> NoExpression, type |-> "String"],
      origin |->
        [depends_on_url |-> TRUE, renderer_depends_on_webframe |-> FALSE,
         browser |-> NoExpression, renderer |-> NoExpression,
         custom_expression |-> "url.origin or protocol//host", type |-> "String"],
      href |->
        [depends_on_url |-> TRUE, renderer_depends_on_webframe |-> FALSE,
         browser |-> NoExpression, renderer |-> NoExpression,
         custom_expression |-> NoExpression, type |-> "String"],
      hostname |->
        [depends_on_url |-> TRUE, renderer_depends_on_webframe |-> FALSE,
         browser |-> NoExpression, renderer |-> NoExpression,
         custom_expression |-> NoExpression, type |-> "String"],
      is_about_blank |->
        [depends_on_url |-> FALSE, renderer_depends_on_webframe |-> FALSE,
         browser |-> "event.senderFrame?.url === 'about:blank'",
         renderer |-> "window.location.href === 'about:blank'",
         custom_expression |-> NoExpression, type |-> "Boolean"] ]

\* value.replace(/^"|"$/g, ''): drop one leading and one trailing quote
StripQuotes(s) ==
    LET a == IF Len(s) > 0 /\ s[1] = "\"" THEN Tail(s) ELSE s
    IN  IF Len(a) > 0 /\ a[Len(a)] = "\"" THEN SubSeq(a, 1, Len(a) - 1) ELSE a

\* AST nodes of a validator grammar, all of one shape.
StringValue(s) == [type |-> "StringValue", value |-> <<"\"">> \o s \o <<"\"">>]
BooleanValue(b) == [type |-> "BooleanValue", value |-> <<b>>]
NoValue == [type |-> "None", value |-> <<>>]
ValidatorAnd(cs) == [type |-> "ValidatorAnd", conditions |-> cs, subject |-> "", value |-> NoValue, param |-> ""]
ValidatorOr(cs) == [type |-> "ValidatorOr", conditions |-> cs, subject |-> "", value |-> NoValue, param |-> ""]
ValidatorIs(subject, value) == [type |-> "ValidatorIs", conditions |-> <<>>, subject |-> subject, value |-> value, param |-> ""]
ValidatorStartsWith(subject, s) == [type |-> "ValidatorStartsWith", conditions |-> <<>>, subject |-> subject, value |-> StringValue(s), param |-> ""]
ValidatorDynamicGlobal(param) == [type |-> "ValidatorDynamicGlobal", conditions |-> <<>>, subject |-> "", value |-> NoValue, param |-> param]

\* The expressions buildCondition emits, all of one shape.
ExprTrue == [op |-> "true", expression |-> "", target |-> <<>>, args |-> <<>>]
ExprThrow(msg) == [op |-> "throw", expression |-> msg, target |-> <<>>, args |-> <<>>]
ExprEquals(e, target) == [op |-> "===", expression |-> e, target |-> target, args |-> <<>>]
ExprStartsWith(e, target) == [op |-> "startsWith", expression |-> e, target |-> target, args |-> <<>>]
ExprGlobal(param) == [op |-> "global", expression |-> param, target |-> <<>>, args |-> <<>>]
ExprJoin(op, args) == [op |-> op, expression |-> "", target |-> <<>>, args |-> args]

ProcessExpression(info, process) == IF process = "browser" THEN info.browser ELSE info.renderer

RECURSIVE buildCondition(_, _)
buildCondition(condition, process) ==
    CASE condition.type \in {"ValidatorAnd", "ValidatorOr"} ->
            ExprJoin(IF condition.type = "ValidatorAnd" THEN "&&" ELSE "||",
                     [i \in DOMAIN condition.conditions |->
                        buildCondition(condition.conditions[i], process)])
      [] condition.type = "ValidatorIs" ->
            IF condition.subject \notin DOMAIN variables
            THEN ExprThrow("Unknown variable")
            ELSE LET info == variables[condition.subject]
                     targetType == IF condition.value.type = "StringValue" THEN "String" ELSE "Boolean"
                 IN  IF info.type # targetType
                     THEN ExprThrow("TypeMismatch")
                     ELSE IF ~info.depends_on_url /\ ProcessExpression(info, process) = NoExpression
                     THEN ExprTrue
                     ELSE LET expression ==
                                IF info.depends_on_url
                                THEN (IF info.custom_expression # NoExpression
                                      THEN info.custom_expression
                                      ELSE condition.subject)
                                ELSE ProcessExpression(info, process)
                              targetValue ==
                                IF condition.value.type = "StringValue"
                                THEN StripQuotes(condition.value.value)
                                ELSE <<IF condition.value.value = <<"true">> THEN "true" ELSE "false">>
                          IN  ExprEquals(expression, targetValue)
      [] condition.type = "ValidatorStartsWith" ->
            IF condition.subject \notin DOMAIN variables
            THEN ExprThrow("Unknown variable")
            ELSE LET info == variables[condition.subject]
                 IN  IF info.type # "String"
                     THEN ExprThrow("Cannot use startsWith")
                     ELSE IF ~info.depends_on_url /\ ProcessExpression(info, process) = NoExpression
                     THEN ExprTrue
                     ELSE LET expression ==
                                IF info.depends_on_url
                                THEN (IF info.custom_expression # NoExpression
                                      THEN info.custom_expression
                                      ELSE condition.subject)
                                ELSE ProcessExpression(info, process)
                          IN  ExprStartsWith(expression, StripQuotes(condition.value.value))
      [] condition.type = "ValidatorDynamicGlobal" ->
            IF process = "renderer" THEN ExprTrue ELSE ExprGlobal(condition.param)

buildGrammar(grammar, process) == buildCondition(grammar, process)

\* flags.depends_on_url as buildCondition leaves it
RECURSIVE DependsOnUrl(_)
DependsOnUrl(condition) ==
    CASE condition.type \in {"ValidatorAnd", "ValidatorOr"} ->
            \E i \in DOMAIN condition.conditions : DependsOnUrl(condition.conditions[i])
      [] condition.type \in {"ValidatorIs", "ValidatorStartsWith"} ->
            condition.subject \in DOMAIN variables /\ variables[condition.subject].depends_on_url
      [] OTHER -> FALSE

(***************************************************************************)
(* Evaluating the emitted validator functions.                             *)
(*                                                                         *)
(* A frame is what both processes can see of the calling frame: whether    *)
(* event.senderFrame exists, its URL, and whether it is the top frame.     *)
(* A context adds the main process's own facts at the time of the call:    *)
(* app.isPackaged and the truthy properties of globalThis.                 *)
(***************************************************************************)
Frame(exists, url, isTop) == [exists |-> exists, url |-> url, isTop |-> isTop]
Context(frame, isPackaged, globals) == [frame |-> frame, isPackaged |-> isPackaged, globals |-> globals]

\* Schemes for which URL.origin is not the sentinel "null"
SpecialSchemes == {"http:", "https:", "ftp:", "ws:", "wss:"}

\* new URL(s): ok = FALSE when the constructor throws
ParseURL(s) ==
    IF Len(s) >= 3 /\ s[2] = "//"
    THEN [ok |-> TRUE, protocol |-> <<s[1]>>, host |-> <<s[3]>>, hostname |-> <<s[3]>>, href |-> s,
          origin |-> IF s[1] \in SpecialSchemes THEN <<s[1], "//", s[3]>> ELSE <<"null">>]
    ELSE IF Len(s) = 2 /\ s[1] = "about:"
    THEN [ok |-> TRUE, protocol |-> <<"about:">>, host |-> <<>>, hostname |-> <<>>, href |-> s,
          origin |-> <<"null">>]
    ELSE [ok |-> FALSE, protocol |-> <<>>, host |-> <<>>, hostname |-> <<>>, href |-> <<>>,
          origin |-> <<>>]

Bool(b) == IF b THEN <<"true">> ELSE <<"false">>

\* The value of one emitted JavaScript expression
EvalExpression(expression, ctx, url) ==
    CASE expression = "event.senderFrame?.parent === null" -> Bool(ctx.frame.exists /\ ctx.frame.isTop)
      [] expression = "webFrame.top?.frameToken === webFrame.frameToken" -> Bool(ctx.frame.isTop)
      [] expression = "$$app$$.isPackaged" -> Bool(ctx.isPackaged)
      [] expression = "event.senderFrame?.url === 'about:blank'" ->
            Bool(ctx.frame.exists /\ ctx.frame.url = <<"about:", "blank">>)
      [] expression = "window.location.href === 'about:blank'" -> Bool(ctx.frame.url = <<"about:", "blank">>)
      [] expression = "url.origin or protocol//host" ->
            IF url.origin = <<"null">> THEN url.protocol \o <<"//">> \o url.host ELSE url.origin
      [] expression = "protocol" -> url.protocol
      [] expression = "href" -> url.href
      [] expression = "hostname" -> url.hostname

StartsWith(s, prefix) == Len(prefix) <= Len(s) /\ SubSeq(s, 1, Len(prefix)) = prefix

RECURSIVE EvalCondition(_, _, _)
EvalCondition(e, ctx, url) ==
    CASE e.op = "true" -> TRUE
      [] e.op = "===" -> EvalExpression(e.expression, ctx, url) = e.target
      [] e.op = "startsWith" -> StartsWith(EvalExpression(e.expression, ctx, url), e.target)
      [] e.op = "global" -> e.expression \in ctx.globals
      [] e.op = "&&" -> \A i \in DOMAIN e.args : EvalCondition(e.args[i], ctx, url)
      [] e.op = "||" -> \E i \in DOMAIN e.args : EvalCondition(e.args[i], ctx, url)

\* wireValidator: the grammar compiled for the resolved environment
GrammarOf(validatorDef) == validatorDef.grammar

\* wireValidator: the two functions emitted for one validator, each as the
\* condition it tests and whether it parses the URL first
wireValidator(validatorDef) ==
    LET grammar == GrammarOf(validatorDef)
    IN  [browser |-> [condition |-> buildGrammar(grammar, "browser"),
                      depends_on_url |-> DependsOnUrl(grammar)],
         renderer |-> [condition |-> buildGrammar(grammar, "renderer"),
                       depends_on_url |-> DependsOnUrl(grammar)]]

\* The function wireValidator emits for the browser process, applied to an event
browserEventValidator(emitted, ctx) ==
    LET url == ParseURL(ctx.frame.url)
    IN  IF emitted.browser.depends_on_url /\ ~ctx.frame.exists THEN FALSE
        ELSE IF emitted.browser.depends_on_url /\ ~url.ok THEN FALSE
        ELSE EvalCondition(emitted.browser.condition, ctx, url)

\* The function wireValidator emits for the preload script, applied in a frame
rendererExposeValidator(emitted, ctx) ==
    LET url == ParseURL(ctx.frame.url)
    IN  IF emitted.renderer.depends_on_url /\ ~url.ok THEN FALSE
        ELSE EvalCondition(emitted.renderer.condition, ctx, url)

(***************************************************************************)
(* The schema the model wires: one module, two validators, one interface.  *)
(***************************************************************************)
Validators ==
    [ TrustedApp |->
        [name |-> "TrustedApp",
         grammar |-> ValidatorAnd(<<ValidatorIs("origin", StringValue(<<"app:", "//", "test">>)),
                                    ValidatorDynamicGlobal("testGlobalFlag")>>)],
      MainOrPackaged |->
        [name |-> "MainOrPackaged",
         grammar |-> ValidatorOr(<<ValidatorIs("is_main_frame", BooleanValue("true")),
                                   ValidatorIs("is_packaged", BooleanValue("true"))>>)] ]

\* The validator functions of the generated browser and preload code
EmittedValidators == [name \in DOMAIN Validators |-> wireValidator(Validators[name])]

NoType == [present |-> FALSE, type |-> TypeRef("void", FALSE), nullable |-> FALSE]
ReturnType(type, nullable) == [present |-> TRUE, type |-> type, nullable |-> nullable]
Argument(name, type, nullable, optional) ==
    [name |-> name, type |-> type, nullable |-> nullable, optional |-> optional]
Method(name, tags, arguments, returnType) ==
    [name |-> name, tags |-> tags, arguments |-> arguments, returnType |-> returnType]

TestModule == [name |-> "e2e.test"]

TestAPI ==
    [name |-> "TestAPI",
     tags |-> <<[key |-> "RendererAPI", value |-> ""],
                [key |-> "Validator", value |-> "TrustedApp"],
                [key |-> "Validator", value |-> "MainOrPackaged"],
                [key |-> "ContextBridge", value |-> ""]>>,
     methods |->
        <<Method("Scale", <<>>,
                 <<Argument("value", TypeRef("number", FALSE), FALSE, FALSE),
                   Argument("labels", TypeRef("string", TRUE), TRUE, TRUE)>>,
                 ReturnType(TypeRef("number", FALSE), FALSE)),
          Method("Notify", <<>>, <<>>, NoType),
          Method("GetValueSync", <<"Sync">>,
                 <<Argument("key", TypeRef("string", FALSE), FALSE, FALSE)>>,
                 ReturnType(TypeRef("number", FALSE), TRUE)),
          Method("ResetSync", <<"Sync">>, <<>>, NoType),
          Method("counter", <<"Store">>, <<>>, ReturnType(TypeRef("number", FALSE), FALSE)),
          Method("OnValueChanged", <<"Event">>,
                 <<Argument("newValue", TypeRef("string", FALSE), FALSE, FALSE)>>, NoType),
          Method("FutureFeature", <<"NotImplemented">>, <<>>,
                 ReturnType(TypeRef("string", FALSE), FALSE))>>]

HasTag(tags, key) == \E i \in DOMAIN tags : tags[i] = key

\* What a thrown Error of the compiler is about: its message template and the
\* names filled into it
NoError == [kind |-> "none", about |-> <<>>]
CompileError(kind, about) == [kind |-> kind, about |-> about]

MethodTagKeys == {"Sync", "Event", "NotImplemented", "Store"}

methodTagInfo(method) ==
    LET synchronous == HasTag(method.tags, "Sync")
        event == HasTag(method.tags, "Event")
        notImplemented == HasTag(method.tags, "NotImplemented")
        store == HasTag(method.tags, "Store")
    IN  [synchronous |-> synchronous,
         event |-> event,
         notImplemented |-> notImplemented,
         store |-> store,
         error |->
            IF \E i \in DOMAIN method.tags : method.tags[i] \notin MethodTagKeys
            THEN CompileError("Unrecognized tag on method", <<method.name>>)
            ELSE IF event /\ method.returnType.present
            THEN CompileError("tagged with [Event] but has a return type", <<method.name>>)
            ELSE IF store /\ (synchronous \/ event \/ notImplemented)
            THEN CompileError("tagged with [Store] but is also tagged with incompatible tags", <<method.name>>)
            ELSE IF store /\ Len(method.arguments) > 0
            THEN CompileError("tagged with [Store] but has arguments", <<method.name>>)
            ELSE IF store /\ ~method.returnType.present
            THEN CompileError("tagged with [Store] but has no return type", <<method.name>>)
            ELSE NoError]

InterfaceTagKeys == {"RendererAPI", "ContextBridge", "Validator"}

\* The error of the first tag at which the loop of interfaceTagInfo throws
InterfaceTagError(int, i) ==
    LET tag == int.tags[i]
    IN  IF tag.key = "RendererAPI" /\ \E j \in 1..(i - 1) : int.tags[j].key = "RendererAPI"
        THEN CompileError("declared as multiple different API types", <<int.name>>)
        ELSE IF tag.key = "Validator" /\ tag.value = ""
        THEN CompileError("Value not provided with Validator tag", <<int.name>>)
        ELSE IF tag.key \notin InterfaceTagKeys
        THEN CompileError("Unrecognized tag on interface", <<int.name>>)
        ELSE NoError

\* An interfaceTagInfo that accepts an interface without any validator
interfaceTagInfo_NoValidatorRequired(int) ==
    LET bad == {i \in DOMAIN int.tags : InterfaceTagError(int, i) # NoError}
        js == {j \in DOMAIN int.tags : int.tags[j].key = "Validator"}
        validators == [i \in 1..Cardinality(js) |->
                         int.tags[CHOOSE j \in js : Cardinality({k \in js : k <= j}) = i].value]
    IN  [interfaceType |-> IF \E i \in DOMAIN int.tags : int.tags[i].key = "RendererAPI"
                           THEN "RendererAPI" ELSE "null",
         autoContextBridge |-> \E i \in DOMAIN int.tags : int.tags[i].key = "ContextBridge",
         validators |-> validators,
         error |->
            IF bad # {}
            THEN InterfaceTagError(int, CHOOSE i \in bad : \A j \in bad : i <= j)
            ELSE IF \A i \in DOMAIN int.tags : int.tags[i].key # "RendererAPI"
            THEN CompileError("does not have a declared API type of [RendererAPI]", <<int.name>>)
            ELSE NoError]

interfaceTagInfo(int) ==
    LET bad == {i \in DOMAIN int.tags : InterfaceTagError(int, i) # NoError}
        js == {j \in DOMAIN int.tags : int.tags[j].key = "Validator"}
        validators == [i \in 1..Cardinality(js) |->
                         int.tags[CHOOSE j \in js : Cardinality({k \in js : k <= j}) = i].value]
    IN  [interfaceType |-> IF \E i \in DOMAIN int.tags : int.tags[i].key = "RendererAPI"
                           THEN "RendererAPI" ELSE "null",
         autoContextBridge |-> \E i \in DOMAIN int.tags : int.tags[i].key = "ContextBridge",
         validators |-> validators,
         error |->
            IF bad # {}
            THEN InterfaceTagError(int, CHOOSE i \in bad : \A j \in bad : i <= j)
            ELSE IF \A i \in DOMAIN int.tags : int.tags[i].key # "RendererAPI"
            THEN CompileError("does not have a declared API type of [RendererAPI]", <<int.name>>)
            ELSE IF validators = <<>>
            THEN CompileError("does not have a declared Validator", <<int.name>>)
            ELSE NoError]

\* The characters of the identifiers whose spelling matters to the channel
\* templates; any other identifier is one piece that is never taken apart.
Spelling ==
    [ a |-> <<"a">>, a_ |-> <<"a", "_">>, _a |-> <<"_", "a">>, b |-> <<"b">> ]

Chars(name) == IF name \in DOMAIN Spelling THEN Spelling[name] ELSE <<name>>

\* Channel identifiers (_constants.ts): template strings, i.e. concatenation
IPC_MESSAGE_PREFIX == <<"$eipc_message$_", "<uuid>", "_$_">>

\* A channel template that joins the names with "_" alone
ipcMessage_Underscore(module, int, method) ==
    IPC_MESSAGE_PREFIX \o Chars(module.name) \o <<"_">> \o Chars(int.name)
        \o <<"_">> \o Chars(method.name)

ipcMessage(module, int, method) ==
    IPC_MESSAGE_PREFIX \o Chars(module.name) \o <<"_", "$", "_">> \o Chars(int.name)
        \o <<"_", "$", "_">> \o Chars(method.name)
ipcStoreMessage(module, int, method, suffix) ==
    IPC_MESSAGE_PREFIX \o Chars(module.name) \o <<"_", "$", "_">> \o Chars(int.name)
        \o <<"_", "$", "_">> \o Chars(method.name) \o <<"_", "$store$", "_", suffix>>

(***************************************************************************)
(* The privileged dispatchers that setImplementation registers             *)
(* (wiring/interface.ts, interfaceImplementation).                         *)
(***************************************************************************)
\* One record per target.ipc.on / target.ipc.handle call of setImplementation
MethodHandler(module, int, method) ==
    [channel |-> ipcMessage(module, int, method),
     transport |-> IF methodTagInfo(method).synchronous THEN "on" ELSE "handle",
     method |-> method.name,
     store |-> FALSE,
     arguments |-> method.arguments,
     returnType |-> method.returnType]

StoreHandler(module, int, method, suffix) ==
    [channel |-> ipcStoreMessage(module, int, method, suffix),
     transport |-> IF suffix = "getStateSync" THEN "on" ELSE "handle",
     method |-> method.name,
     store |-> TRUE,
     arguments |-> <<>>,
     returnType |-> method.returnType]

RECURSIVE HandlersOf(_, _, _)
HandlersOf(module, int, methods) ==
    IF methods = <<>> THEN <<>>
    ELSE LET method == Head(methods)
             info == methodTagInfo(method)
             mine == IF info.store
                     THEN <<StoreHandler(module, int, method, "getState"),
                            StoreHandler(module, int, method, "getStateSync")>>
                     ELSE IF ~info.event /\ ~info.notImplemented
                     THEN <<MethodHandler(module, int, method)>>
                     ELSE <<>>
         IN  mine \o HandlersOf(module, int, Tail(methods))

Handlers == HandlersOf(TestModule, TestAPI, TestAPI.methods)

\* A dispatcher that asks the preload form of the validators instead
CallerPasses_Cooperative(int, ctx) ==
    LET vs == interfaceTagInfo(int).validators
    IN  \A i \in DOMAIN vs : rendererExposeValidator(EmittedValidators[vs[i]], ctx)

\* (v1(event)) && (v2(event)) && ... over the interface's validators
CallerPasses(int, ctx) ==
    LET vs == interfaceTagInfo(int).validators
    IN  \A i \in DOMAIN vs : browserEventValidator(EmittedValidators[vs[i]], ctx)

\* The handler's parameters arg_<name>, bound from the arguments of the call
BindArguments(h, args) ==
    [i \in DOMAIN h.arguments |-> IF i <= Len(args) THEN args[i] ELSE JSUndefined]

ArgumentPasses(h, bound, i) ==
    validatorFnOrPrimitiveValidator(h.arguments[i].type, bound[i],
                                    h.arguments[i].nullable, h.arguments[i].optional)

Stage == <<"validating-caller", "validating-args", "invoking", "validating-result">>

NoThrow == [thrown |-> FALSE, error |-> ErrorObject(<<>>)]
Throw(e) == [thrown |-> TRUE, error |-> e]

\* A handler that checks its arguments only after calling the implementation
HandlerEnter_InvokeFirst(h, int, ctx, bound) ==
    IF ~CallerPasses(int, ctx)
    THEN [trace |-> <<Stage[1]>>, invoked |-> FALSE,
          exit |-> Throw(ErrorObject(<<"Incoming ", h.method, " call did not pass origin validation">>))]
    ELSE IF \E i \in DOMAIN h.arguments : ~ArgumentPasses(h, bound, i)
    THEN [trace |-> <<Stage[1], Stage[3], Stage[2]>>, invoked |-> TRUE,
          exit |-> Throw(ErrorObject(<<"Argument failed to pass validation">>))]
    ELSE [trace |-> <<Stage[1], Stage[3], Stage[2]>>, invoked |-> TRUE, exit |-> NoThrow]

\* The handler from its entry to its await of the user implementation
HandlerEnter(h, int, ctx, bound) ==
    IF ~CallerPasses(int, ctx)
    THEN [trace |-> <<Stage[1]>>, invoked |-> FALSE,
          exit |-> Throw(ErrorObject(<<"Incoming ", h.method, " call did not pass origin validation">>))]
    ELSE IF \E i \in DOMAIN h.arguments : ~ArgumentPasses(h, bound, i)
    THEN LET i == CHOOSE i \in DOMAIN h.arguments :
                    /\ ~ArgumentPasses(h, bound, i)
                    /\ \A j \in 1..(i - 1) : ArgumentPasses(h, bound, j)
         IN  [trace |-> <<Stage[1], Stage[2]>>, invoked |-> FALSE,
              exit |-> Throw(ErrorObject(<<"Argument ", h.arguments[i].name, " at position ",
                                           ToString(i - 1), " failed to pass validation">>))]
    ELSE [trace |-> <<Stage[1], Stage[2], Stage[3]>>, invoked |-> TRUE, exit |-> NoThrow]

\* An outcome of the user implementation
Returns(x) == [kind |-> "return", value |-> x, error |-> ErrorObject(<<>>)]
Throws(e) == [kind |-> "throw", value |-> JSUndefined, error |-> e]

\* The handler from the settling of the awaited implementation to its end
HandlerResume(h, outcome) ==
    IF outcome.kind = "throw"
    THEN [trace |-> <<>>, value |-> JSUndefined, exit |-> Throw(outcome.error)]
    ELSE IF ~h.returnType.present
    THEN [trace |-> <<>>, value |-> JSUndefined, exit |-> NoThrow]
    ELSE IF ~validatorFnOrPrimitiveValidator(h.returnType.type, outcome.value,
                                             h.returnType.nullable, FALSE)
    THEN [trace |-> <<Stage[4]>>, value |-> JSUndefined,
          exit |-> Throw(ErrorObject(<<"Result from ", h.method, " failed to pass validation">>))]
    ELSE [trace |-> <<Stage[4]>>, value |-> outcome.value, exit |-> NoThrow]

\* What the call gets back. "result" / "error" are the two tagged outcomes
\* assigned to event.returnValue; "resolved" / "rejected" is the promise that
\* ipc.handle answers with.
NoReply == [tag |-> "none", result |-> JSUndefined, error |-> <<>>]
TaggedResult(x) == [tag |-> "result", result |-> x, error |-> <<>>]
TaggedError(msg) == [tag |-> "error", result |-> JSUndefined, error |-> msg]
Resolved(x) == [tag |-> "resolved", result |-> x, error |-> <<>>]
Rejected(msg) == [tag |-> "rejected", result |-> JSUndefined, error |-> msg]

\* err instanceof Error ? err.message : String(err)
ErrorText(err) == IF err.isError THEN err.message ELSE StringOf(err.value)

\* A synchronous handler without the try/catch: the failure leaves the handler
CatchSync_Propagates(err) == Rejected(ErrorText(err))

\* catch (err) { event.returnValue = { error: ... } } of the synchronous handlers
CatchSync(err) == TaggedError(ErrorText(err))

\* The reply of a handler that ended with `exit` and, if it did not throw, `value`
ReplyOf(h, exit, value) ==
    IF h.transport = "on"
    THEN (IF exit.thrown THEN CatchSync(exit.error) ELSE TaggedResult(value))
    ELSE (IF exit.thrown THEN Rejected(ErrorText(exit.error)) ELSE Resolved(value))

(***************************************************************************)
(* The cooperative stubs (wiring/interface.ts, rendererDefinition).        *)
(***************************************************************************)
NotReturned == [kind |-> "pending", value |-> JSUndefined, message |-> <<>>]
StubReturns(x) == [kind |-> "return", value |-> x, message |-> <<>>]
StubThrows(msg) == [kind |-> "throw", value |-> JSUndefined, message |-> msg]

\* if (response.error) throw new Error(response.error); return response.result;
SendSyncStub(response) ==
    IF response.tag = "error" /\ response.error # <<>>
    THEN StubThrows(response.error)
    ELSE StubReturns(IF response.tag = "result" THEN response.result ELSE JSUndefined)

\* return ipcRenderer.invoke(channel, ...): the promise as the caller awaits it
InvokeStub(response) ==
    IF response.tag = "rejected"
    THEN StubThrows(<<"Error invoking remote method: ">> \o response.error)
    ELSE StubReturns(response.result)

StubOf(h, response) == IF h.transport = "on" THEN SendSyncStub(response) ELSE InvokeStub(response)

\* The preload initializer: whether the interface is put on the bridge in a frame
\* An initializer that bridges the interface without asking the validators
Exposes_Unchecked(int, ctx) == TRUE

Exposes(int, ctx) ==
    LET vs == interfaceTagInfo(int).validators
    IN  \A i \in DOMAIN vs : rendererExposeValidator(EmittedValidators[vs[i]], ctx)

\* The key under which an interface is bridged: localBridged[module][interface]
BridgeKey(module, int) == [module |-> module.name, interface |-> int.name]

\* $eipc_impl$_init_<Interface>(localBridged), emitted for [ContextBridge]
\* interfaces only: the keys of localBridged afterwards
BridgeInitializer(module, int, ctx, localBridged) ==
    IF ~interfaceTagInfo(int).autoContextBridge THEN localBridged
    ELSE IF ~Exposes(int, ctx) THEN localBridged
    ELSE localBridged \cup {BridgeKey(module, int)}

(***************************************************************************)
(* Subscriptions in the preload (wiring/interface.ts, on<Event> and        *)
(* <store>Store.onStateChange).  ipcRenderer's listeners are a sequence of *)
(* (channel, handler) in the order of registration; every call of a        *)
(* subscribe primitive creates a new handler closure.                      *)
(***************************************************************************)
Listener(channel, handler) == [channel |-> channel, handler |-> handler]

ipcRendererOn(ls, channel, handler) == Append(ls, Listener(channel, handler))

\* removeAllListeners in place of removeListener
ipcRendererRemoveListener_All(ls, channel, handler) ==
    SelectSeq(ls, LAMBDA l : l.channel # channel)

\* EventEmitter.removeListener: drops the most recently added instance, if any
ipcRendererRemoveListener(ls, channel, handler) ==
    LET hits == {i \in DOMAIN ls : ls[i] = Listener(channel, handler)}
    IN  IF hits = {} THEN ls
        ELSE LET last == CHOOSE i \in hits : \A j \in hits : j <= i
             IN  SubSeq(ls, 1, last - 1) \o SubSeq(ls, last + 1, Len(ls))

\* The handlers ipcRenderer calls, in order, for one message on a channel
HandlersCalled(ls, channel) ==
    LET on == SelectSeq(ls, LAMBDA l : l.channel = channel)
    IN  [i \in DOMAIN on |-> on[i].handler]

EventChannel == ipcMessage(TestModule, TestAPI, TestAPI.methods[6])
UpdateChannel == ipcStoreMessage(TestModule, TestAPI, TestAPI.methods[5], "update")
GetStateHandler == CHOOSE k \in DOMAIN Handlers :
                        Handlers[k].channel = ipcStoreMessage(TestModule, TestAPI, TestAPI.methods[5], "getState")

(***************************************************************************)
(* The store update broadcaster (wiring/interface.ts, update<X>Store).     *)
(***************************************************************************)
\* Whether update<X>Store(state) sends; it throws otherwise
UpdateStoreSends(method, state) ==
    IF method.returnType.present
    THEN validatorFnOrPrimitiveValidator(method.returnType.type, state, method.returnType.nullable, FALSE)
    ELSE TRUE

(***************************************************************************)
(* The event dispatch primitive (wiring/interface.ts, dispatch<Event>).    *)
(***************************************************************************)
\* A dispatch primitive that sends without checking its arguments
DispatchEventSends_Unchecked(event, bound) == TRUE

\* Whether dispatch<Event>(...) reaches target.send; it throws at the first
\* argument that fails otherwise
DispatchEventSends(event, bound) ==
    \A i \in DOMAIN event.arguments : ArgumentPasses(event, bound, i)

\* target.send(channel, arg_1, ..., arg_n)
Message(channel, args) == [channel |-> channel, args |-> args]

(***************************************************************************)
(* The React hook use<X>Store (wiring/interface.ts, hookCode).             *)
(***************************************************************************)
StoreMissing == [state |-> "missing", result |-> JSUndefined, error |-> <<>>]
StoreLoading == [state |-> "loading", result |-> JSUndefined, error |-> <<>>]
StoreReady(x) == [state |-> "ready", result |-> x, error |-> <<>>]
StoreError(msg) == [state |-> "error", result |-> JSUndefined, error |-> msg]

\* The handler id of the hook's onStateChange subscription
HookHandler == 1

setStoreState(h, s) == [h EXCEPT !.storeState = s, !.observed = Append(@, s)]

\* An initializer with its test of the store inverted
HookRender_Inverted(h, ctx) ==
    LET exposed == Exposes(TestAPI, ctx)
        first == IF exposed THEN StoreMissing ELSE StoreLoading
    IN  [h EXCEPT !.pc = "rendered", !.ctx = ctx, !.exposed = exposed,
                  !.storeState = first, !.observed = <<first>>]

\* useState(() => ...): the first render
HookRender(h, ctx) ==
    LET exposed == Exposes(TestAPI, ctx)
        first == IF ~exposed THEN StoreMissing ELSE StoreLoading
    IN  [h EXCEPT !.pc = "rendered", !.ctx = ctx, !.exposed = exposed,
                  !.storeState = first, !.observed = <<first>>]

\* .then((result) => { if (!cancelled) setStoreState({ state: 'ready', result }) })
HookOnFetchResolved_NoCancelCheck(h, result) == setStoreState(h, StoreReady(result))

HookOnFetchResolved(h, result) ==
    IF ~h.cancelled THEN setStoreState(h, StoreReady(result)) ELSE h

\* .catch((error) => { if (!cancelled) setStoreState({ state: 'error', error }) })
HookOnFetchRejected_Swallowed(h, message) == h

HookOnFetchRejected(h, message) ==
    IF ~h.cancelled THEN setStoreState(h, StoreError(message)) ELSE h

\* store.onStateChange((result) => { if (!cancelled) setStoreState(...) })
HookOnStateChange_FirstOnly(h, result) ==
    IF ~h.cancelled /\ h.storeState.state = "loading" THEN setStoreState(h, StoreReady(result)) ELSE h

HookOnStateChange(h, result) ==
    IF ~h.cancelled THEN setStoreState(h, StoreReady(result)) ELSE h

\* The effect's cleanup without its unsubscribe() call
HookCleanupListeners_Leak(ls) == ls

\* return () => { cancelled = true; unsubscribe(); }: the listeners afterwards
HookCleanupListeners(ls) == ipcRendererRemoveListener(ls, UpdateChannel, HookHandler)

(***************************************************************************)
(* The compiler (wire.ts, buildWiring): the schema as the parser hands it  *)
(* over, the two passes over its elements, and what each wire* function    *)
(* adds to the Controller.  Generated code is kept as records of what it   *)
(* declares instead of as text.                                            *)
(***************************************************************************)
PRIMITIVES == {"string", "number", "boolean", "null", "void", "unknown"}

\* Module elements, all of one shape.  The value of an enum option is the
\* STRING token as written, quotes included; an option without a value has <<>>
NoGrammar == ValidatorAnd(<<>>)
Element(type, name) ==
    [type |-> type, name |-> name, grammar |-> NoGrammar, options |-> <<>>,
     properties |-> <<>>, tags |-> <<>>, methods |-> <<>>,
     parent |-> "", restrictions |-> <<>>, typeName |-> <<>>]
ValidatorElement(name, grammar) == [Element("Validator", name) EXCEPT !.grammar = grammar]
EnumOption(name, value) == [name |-> name, value |-> value]
EnumElement(name, options) == [Element("Enum", name) EXCEPT !.options = options]
\* A property type is a TypeReference (TypeRef), a StructureBlock or a
\* KeyValueBlock; PropertyKind is its $type
StructureBlock(properties) == [properties |-> properties]
KeyValueBlock(type) == [type |-> type]
PropertyKind(propType) ==
    IF "reference" \in DOMAIN propType THEN "TypeReference"
    ELSE IF "properties" \in DOMAIN propType THEN "StructureBlock"
    ELSE "KeyValueBlock"
StructureProperty(name, type, optional, nullable) ==
    [name |-> name, type |-> type, optional |-> optional, nullable |-> nullable]
Property(name, type) == StructureProperty(name, type, FALSE, FALSE)
\* A restriction of a subtype: its name and its value, a literal with its type
SubTypeRestriction(name, valueType, value) ==
    [name |-> name, value |-> [type |-> valueType, value |-> value]]
SubTypeElement(name, parent, restrictions) ==
    [Element("SubType", name) EXCEPT !.parent = parent, !.restrictions = restrictions]
\* zod.typeName is a STRING token, quotes included
ZodReferenceElement(name, typeName) == [Element("ZodReference", name) EXCEPT !.typeName = typeName]
StructureElement(name, properties) == [Element("Structure", name) EXCEPT !.properties = properties]
InterfaceElement(name, tags, methods) ==
    [Element("Interface", name) EXCEPT !.tags = tags, !.methods = methods]
Module(name, elements) == [name |-> name, elements |-> elements]

RECURSIVE Flatten(_)
Flatten(ss) == IF ss = <<>> THEN <<>> ELSE Head(ss) \o Flatten(Tail(ss))

\* First pass of buildWiring: the error thrown at element i, if any
FirstPassError(module, i) ==
    LET typeName == module.elements[i].name
    IN  IF typeName \in PRIMITIVES
        THEN CompileError("Cannot redeclare built-in primitive type", <<typeName>>)
        ELSE IF \E j \in 1..(i - 1) : module.elements[j].name = typeName
        THEN CompileError("Duplicate definition", <<typeName>>)
        ELSE NoError

\* First pass of buildWiring: the first error thrown, and allowedTypes
FirstPass(module) ==
    LET bad == {i \in DOMAIN module.elements : FirstPassError(module, i) # NoError}
    IN  [error |-> IF bad = {} THEN NoError
                   ELSE FirstPassError(module, CHOOSE i \in bad : \A j \in bad : i <= j),
         allowedTypes |-> PRIMITIVES \cup {module.elements[i].name : i \in DOMAIN module.elements}]

validateTypeReference(typeName, allowedTypes, context) ==
    IF typeName \notin PRIMITIVES /\ typeName \notin allowedTypes
    THEN <<CompileError("Type is not defined", <<typeName>> \o context)>>
    ELSE <<>>

validateInterface(int, validators, allowedTypes) ==
    Flatten([i \in DOMAIN int.tags |->
        IF int.tags[i].key = "Validator" /\ int.tags[i].value # ""
           /\ int.tags[i].value \notin validators
        THEN <<CompileError("references validator which is not defined",
                            <<int.name, int.tags[i].value>>)>>
        ELSE <<>>])
    \o Flatten([m \in DOMAIN int.methods |->
        LET method == int.methods[m]
        IN  (IF \E k \in 1..(m - 1) : int.methods[k].name = method.name
             THEN <<CompileError("has duplicate method", <<int.name, method.name>>)>>
             ELSE <<>>)
            \o Flatten([a \in DOMAIN method.arguments |->
                 validateTypeReference(method.arguments[a].type.reference, allowedTypes,
                                       <<"argument", method.arguments[a].name, int.name, method.name>>)])
            \o (IF method.returnType.present
                THEN validateTypeReference(method.returnType.type.reference, allowedTypes,
                                           <<"return type", int.name, method.name>>)
                ELSE <<>>)])

\* validateStructureBlock and validatePropertyType: the context of a nested
\* block is the context of the property that holds it
RECURSIVE validateStructureBlock(_, _, _), validatePropertyType(_, _, _)
validateStructureBlock(block, context, allowedTypes) ==
    Flatten([p \in DOMAIN block.properties |->
        LET prop == block.properties[p]
        IN  (IF \E k \in 1..(p - 1) : block.properties[k].name = prop.name
             THEN <<CompileError("has duplicate property", context \o <<prop.name>>)>>
             ELSE <<>>)
            \o validatePropertyType(prop.type, <<"property", prop.name>> \o context,
                                    allowedTypes)])

validatePropertyType(propType, context, allowedTypes) ==
    CASE PropertyKind(propType) = "TypeReference" ->
            validateTypeReference(propType.reference, allowedTypes, context)
      [] PropertyKind(propType) = "StructureBlock" ->
            validateStructureBlock(propType, context, allowedTypes)
      [] PropertyKind(propType) = "KeyValueBlock" ->
            validatePropertyType(propType.type, context, allowedTypes)

validateStructure(struct, allowedTypes) ==
    validateStructureBlock(StructureBlock(struct.properties), <<struct.name>>, allowedTypes)

\* opt.value ?? opt.name
OptionValue(opt) == IF opt.value # <<>> THEN opt.value ELSE <<opt.name>>

validateEnum(en) ==
    Flatten([o \in DOMAIN en.options |->
        LET opt == en.options[o]
        IN  (IF \E k \in 1..(o - 1) : en.options[k].name = opt.name
             THEN <<CompileError("has duplicate option name", <<en.name, opt.name>>)>>
             ELSE <<>>)
            \o (IF \E k \in 1..(o - 1) : OptionValue(en.options[k]) = OptionValue(opt)
                THEN <<CompileError("has duplicate value", <<en.name>> \o OptionValue(opt))>>
                ELSE <<>>)])

validateSubType(subType, allowedTypes) ==
    IF subType.parent \notin PRIMITIVES /\ subType.parent \notin allowedTypes
    THEN <<CompileError("extends a type which is not defined", <<subType.name, subType.parent>>)>>
    ELSE <<>>

\* validateModule: the errors it collects; it throws one Error holding all of
\* them when there is any
validateModule(module, allowedTypes) ==
    LET validators == {module.elements[i].name :
                         i \in {j \in DOMAIN module.elements : module.elements[j].type = "Validator"}}
    IN  Flatten([i \in DOMAIN module.elements |->
            LET elem == module.elements[i]
            IN  CASE elem.type = "Interface" -> validateInterface(elem, validators, allowedTypes)
                  [] elem.type = "Structure" -> validateStructure(elem, allowedTypes)
                  [] elem.type = "Enum" -> validateEnum(elem)
                  [] elem.type = "SubType" -> validateSubType(elem, allowedTypes)
                  [] OTHER -> <<>>])

\* new Controller()
EmptyController ==
    [browserCode |-> <<>>, preloadCode |-> <<>>, commonCode |-> <<>>,
     commonRuntimeCode |-> <<>>, preloadBridgeInitializers |-> <<>>,
     rendererHooksCode |-> <<>>]

Wired(controller) == [error |-> NoError, controller |-> controller]
WireThrows(error, controller) == [error |-> error, controller |-> controller]

\* option.value ? option.value.replace(/^"|"$/g, '') : option.name
EnumValue(option) == IF option.value # <<>> THEN StripQuotes(option.value) ELSE <<option.name>>

\* wireEnum: the enum declaration with the value of each option, and the
\* runtime validator with the set of the values
wireEnum(enumBlock, controller) ==
    Wired([controller EXCEPT
        !.commonCode = Append(@, [kind |-> "enum", name |-> enumBlock.name,
                                  options |-> [i \in DOMAIN enumBlock.options |->
                                                 [name |-> enumBlock.options[i].name,
                                                  value |-> EnumValue(enumBlock.options[i])]]]),
        !.commonRuntimeCode = Append(@, [kind |-> "validator", name |-> enumBlock.name,
                                         values |-> {EnumValue(enumBlock.options[i]) :
                                                        i \in DOMAIN enumBlock.options}])])

\* wireInlineStructure and wireKeyValueMap: the validators of the nested
\* blocks of a property type, innermost first.  The generated name of a nested
\* validator is the name of the structure joined with the path to the block
RECURSIVE InlineValidators(_, _, _)
InlineValidators(propType, owner, path) ==
    CASE PropertyKind(propType) = "TypeReference" -> <<>>
      [] PropertyKind(propType) = "StructureBlock" ->
            Flatten([p \in DOMAIN propType.properties |->
                        InlineValidators(propType.properties[p].type, owner,
                                         Append(path, propType.properties[p].name))])
            \o <<[kind |-> "inlineValidator", name |-> "$inline$", owner |-> owner,
                  path |-> path, properties |-> propType.properties]>>
      [] PropertyKind(propType) = "KeyValueBlock" ->
            InlineValidators(propType.type, owner, Append(path, "$MappedValue$"))
            \o <<[kind |-> "inlineValidator", name |-> "$inline$", owner |-> owner,
                  path |-> path, mapped |-> propType.type]>>

\* wireStructure: the interface declaration, and the runtime validator, which
\* checks the properties in their order
wireStructure(structure, controller) ==
    Wired([controller EXCEPT
        !.commonCode =
            @ \o Flatten([p \in DOMAIN structure.properties |->
                    [i \in DOMAIN InlineValidators(structure.properties[p].type, structure.name,
                                                   <<structure.properties[p].name>>) |->
                        [kind |-> "inline", name |-> "$inline$", owner |-> structure.name]]])
              \o <<[kind |-> "structure", name |-> structure.name]>>,
        !.commonRuntimeCode =
            @ \o Flatten([p \in DOMAIN structure.properties |->
                    InlineValidators(structure.properties[p].type, structure.name,
                                     <<structure.properties[p].name>>)])
              \o <<[kind |-> "validator", name |-> structure.name,
                    properties |-> structure.properties]>>])

(***************************************************************************)
(* What the generated structure validators compute (wiring/structure.ts).  *)
(***************************************************************************)
\* A plain object with its own properties; value.p of a missing p is undefined
JSObject(fields) == [t |-> "object", v |-> "", elems |-> <<>>, fields |-> fields]
GetProperty(value, name) ==
    IF value.t = "object" /\ name \in DOMAIN value.fields THEN value.fields[name]
    ELSE JSUndefined

\* !(!value || typeof value !== 'object')
IsObject(value) == value.t \in {"object", "array"}

RECURSIVE validatorFnOrPrimitiveValidatorForType(_, _, _), PropertyTypeCheck(_, _, _)
RECURSIVE StructureBlockValidator(_, _, _), NamedValidator(_, _, _)

\* validator(name)(value) with the validators the runtime code declares: of
\* an enum, membership of its values; of a structure, its property checks
NamedValidator(name, value, declared) ==
    \E i \in DOMAIN declared :
        /\ declared[i].kind = "validator" /\ declared[i].name = name
        /\ IF "values" \in DOMAIN declared[i]
           THEN value.t = "string" /\ <<value.v>> \in declared[i].values
           ELSE IF "properties" \in DOMAIN declared[i]
           THEN StructureBlockValidator(StructureBlock(declared[i].properties), value, declared)
           ELSE FALSE

validatorFnOrPrimitiveValidatorForType(type, value, declared) ==
    IF type.array
    THEN /\ value.t = "array"
         /\ \A i \in DOMAIN value.elems :
               validatorFnOrPrimitiveValidatorForType([type EXCEPT !.array = FALSE],
                                                      value.elems[i], declared)
    ELSE IF type.reference \in basePrimitives
    THEN type.reference = "unknown" \/ TypeOf(value) = type.reference
    ELSE NamedValidator(type.reference, value, declared)

\* The check of a property's value: by its type reference, or by the
\* validator generated for its inline structure or its key-value map
PropertyTypeCheck(propType, value, declared) ==
    CASE PropertyKind(propType) = "TypeReference" ->
            validatorFnOrPrimitiveValidatorForType(propType, value, declared)
      [] PropertyKind(propType) = "StructureBlock" ->
            StructureBlockValidator(propType, value, declared)
      [] PropertyKind(propType) = "KeyValueBlock" ->
            /\ IsObject(value)
            /\ value.t = "object" =>
                  \A key \in DOMAIN value.fields :
                      PropertyTypeCheck(propType.type, value.fields[key], declared)
            /\ value.t = "array" =>
                  \A i \in DOMAIN value.elems :
                      PropertyTypeCheck(propType.type, value.elems[i], declared)

\* A property check that lets a nullable property be missing as well
PropertyCheck_NullableMayBeMissing(property, value, declared) ==
    LET p == GetProperty(value, property.name)
    IN  IF (property.optional \/ property.nullable) /\ p = JSUndefined THEN TRUE
        ELSE (property.nullable /\ p = JSNull) \/ PropertyTypeCheck(property.type, p, declared)

\* if (typeof value.p !== 'undefined') { if (value.p !== null && !check) return false }
PropertyCheck(property, value, declared) ==
    LET p == GetProperty(value, property.name)
    IN  IF property.optional /\ p = JSUndefined THEN TRUE
        ELSE (property.nullable /\ p = JSNull) \/ PropertyTypeCheck(property.type, p, declared)

StructureBlockValidator(block, value, declared) ==
    /\ IsObject(value)
    /\ \A i \in DOMAIN block.properties : PropertyCheck(block.properties[i], value, declared)

(***************************************************************************)
(* wiring/subtype.ts.  The trace of a subtype to its base primitive is a   *)
(* loop; its state is kept so that each iteration is one step.             *)
(***************************************************************************)
NoTrace ==
    [pc |-> "idle", subType |-> "", schema |-> Module("", <<>>), basePrimitive |-> "",
     visitedTypes |-> {}, steps |-> 0, error |-> NoError]

\* let basePrimitive = subType.name; const visitedTypes = new Set()
NewTrace(subType, schema) ==
    [NoTrace EXCEPT !.pc = "tracing", !.subType = subType.name, !.schema = schema,
                    !.basePrimitive = subType.name]

\* schema.body.find(SubType named name): its position, 0 when there is none
FindSubType(schema, name) ==
    LET found == {i \in DOMAIN schema.elements :
                    schema.elements[i].type = "SubType" /\ schema.elements[i].name = name}
    IN  IF found = {} THEN 0 ELSE CHOOSE i \in found : \A j \in found : i <= j

\* The test of the while loop and one run of its body
TraceStep(t) ==
    IF t.basePrimitive \in basePrimitives THEN [t EXCEPT !.pc = "resolved"]
    ELSE IF t.basePrimitive \in t.visitedTypes
    THEN [t EXCEPT !.pc = "failed",
                   !.error = CompileError("has no resolvable base type, we encountered a cycle",
                                          <<t.subType>>)]
    ELSE IF FindSubType(t.schema, t.basePrimitive) = 0
    THEN [t EXCEPT !.pc = "failed", !.visitedTypes = @ \cup {t.basePrimitive},
                   !.error = CompileError("does not appear in a reachable schema",
                                          <<t.subType, t.basePrimitive>>)]
    ELSE [t EXCEPT !.visitedTypes = @ \cup {t.basePrimitive},
                   !.basePrimitive = t.schema.elements[FindSubType(t.schema, t.basePrimitive)].parent,
                   !.steps = @ + 1]

RECURSIVE RunTrace(_)
RunTrace(t) == IF t.pc = "tracing" THEN RunTrace(TraceStep(t)) ELSE t

\* numberOrFail / stringOrFail: the error thrown, if any
ValueOrFail(restriction, subType, wanted) ==
    IF restriction.value.type # wanted
    THEN CompileError("restriction expected an accompanying value of another type",
                      <<subType.name, restriction.name, restriction.value.type>>)
    ELSE NoError

\* restrictionCheck: the check it returns, or the error it throws
restrictionCheck(restriction, subType, basePrimitive) ==
    LET check == [name |-> restriction.name, value |-> restriction.value.value]
        unsupported == [error |-> CompileError("Unsupported subType refiner",
                                               <<restriction.name, basePrimitive, subType.name>>),
                        check |-> check]
        OrFail(wanted) == [error |-> ValueOrFail(restriction, subType, wanted), check |-> check]
    IN  CASE basePrimitive = "string" /\ restriction.name \in {"minLength", "maxLength"} ->
                OrFail("Number")
          [] basePrimitive = "string" /\ restriction.name \in {"startsWith", "endsWith"} ->
                OrFail("String")
          [] basePrimitive = "number" /\ restriction.name \in {"minValue", "maxValue"} ->
                OrFail("Number")
          [] OTHER -> unsupported

\* wireSubType with the restrictions checked against the parent as written
wireSubType_ImmediateParent(subType, controller, schema) ==
    LET t == RunTrace(NewTrace(subType, schema))
        checks == [i \in DOMAIN subType.restrictions |->
                     restrictionCheck(subType.restrictions[i], subType, subType.parent)]
        bad == {i \in DOMAIN checks : checks[i].error # NoError}
    IN  IF t.pc = "failed" THEN WireThrows(t.error, controller)
        ELSE IF bad # {}
        THEN WireThrows(checks[CHOOSE i \in bad : \A j \in bad : i <= j].error, controller)
        ELSE Wired([controller EXCEPT
                !.commonCode = @ \o <<[kind |-> "subtype", name |-> subType.name,
                                       parent |-> subType.parent],
                                      [kind |-> "validator", name |-> subType.name,
                                       parent |-> subType.parent,
                                       checks |-> [i \in DOMAIN checks |-> checks[i].check]]>>])

\* wireSubType: the base primitive is traced, then every restriction is
\* checked against it; the declaration and the validator are added last
wireSubType(subType, controller, schema) ==
    LET t == RunTrace(NewTrace(subType, schema))
        checks == [i \in DOMAIN subType.restrictions |->
                     restrictionCheck(subType.restrictions[i], subType, t.basePrimitive)]
        bad == {i \in DOMAIN checks : checks[i].error # NoError}
    IN  IF t.pc = "failed" THEN WireThrows(t.error, controller)
        ELSE IF bad # {}
        THEN WireThrows(checks[CHOOSE i \in bad : \A j \in bad : i <= j].error, controller)
        ELSE Wired([controller EXCEPT
                !.commonCode = @ \o <<[kind |-> "subtype", name |-> subType.name,
                                       parent |-> subType.parent],
                                      [kind |-> "validator", name |-> subType.name,
                                       parent |-> subType.parent,
                                       checks |-> [i \in DOMAIN checks |-> checks[i].check]]>>])

\* wireZodReference: the type is re-exported under its own name, the
\* validator under the name of the declaration
wireZodReference(zod, controller) ==
    Wired([controller EXCEPT
        !.commonCode = Append(@, [kind |-> "zod", name |-> zod.name,
                                  typeName |-> StripQuotes(zod.typeName)]),
        !.commonRuntimeCode = Append(@, [kind |-> "validator", name |-> zod.name])])

RECURSIVE HasThrow(_)
HasThrow(e) == e.op = "throw" \/ \E i \in DOMAIN e.args : HasThrow(e.args[i])

\* The message of the first throw that building the condition runs into
RECURSIVE FirstThrow(_)
FirstThrow(e) ==
    IF e.op = "throw" THEN e.expression
    ELSE LET bad == {i \in DOMAIN e.args : HasThrow(e.args[i])}
         IN  FirstThrow(e.args[CHOOSE i \in bad : \A j \in bad : i <= j])

\* process.env as wireValidator reads it; "" is a variable unset or empty
Env(eipc, node) == [EIPC_ENV |-> eipc, NODE_ENV |-> node]
NoEnv == Env("", "")

\* process.env.EIPC_ENV || process.env.NODE_ENV || 'production'
validatorToUse(env) ==
    IF env.EIPC_ENV # "" THEN env.EIPC_ENV
    ELSE IF env.NODE_ENV # "" THEN env.NODE_ENV
    ELSE "production"

\* An environment-keyed grammar: one grammar per named option
ValidatorOption(name, grammar) == [name |-> name, grammar |-> grammar]
ValidatorStructure(options) == [type |-> "ValidatorStructure", options |-> options]

\* validatorDef.grammar.options.find((v) => v.name === validatorToUse)
FindOption(options, name) ==
    LET hits == {i \in DOMAIN options : options[i].name = name}
    IN  IF hits = {} THEN 0 ELSE CHOOSE i \in hits : \A j \in hits : i <= j

\* A wireValidator that emits its functions whatever buildGrammar ran into
wireValidatorElement_EmitsAnyway(validatorDef, env, controller) ==
    LET emitted == wireValidator(validatorDef)
    IN  Wired([controller EXCEPT
            !.browserCode = Append(@, [kind |-> "eventValidator", name |-> validatorDef.name,
                                       condition |-> emitted.browser.condition]),
            !.preloadCode = Append(@, [kind |-> "eventValidator", name |-> validatorDef.name,
                                       condition |-> emitted.renderer.condition])])

\* wireValidator with its controller: the grammar of the resolved environment
\* is compiled, and a throw leaves the controller as it was
wireValidatorElement(validatorDef, env, controller) ==
    LET keyed == validatorDef.grammar.type = "ValidatorStructure"
        found == IF keyed THEN FindOption(validatorDef.grammar.options, validatorToUse(env)) ELSE 0
    IN  IF keyed /\ found = 0
        THEN WireThrows(CompileError("could not find the environment definition",
                                     <<validatorToUse(env)>>), controller)
        ELSE LET grammar == IF keyed THEN validatorDef.grammar.options[found].grammar
                            ELSE validatorDef.grammar
                 emitted == wireValidator([validatorDef EXCEPT !.grammar = grammar])
             IN  IF HasThrow(emitted.browser.condition)
                 THEN WireThrows(CompileError(FirstThrow(emitted.browser.condition),
                                              <<validatorDef.name>>), controller)
                 ELSE Wired([controller EXCEPT
                        !.browserCode = Append(@, [kind |-> "eventValidator",
                                                   name |-> validatorDef.name,
                                                   condition |-> emitted.browser.condition]),
                        !.preloadCode = Append(@, [kind |-> "eventValidator",
                                                   name |-> validatorDef.name,
                                                   condition |-> emitted.renderer.condition])])

\* The members of dis, the object setImplementation returns: one dispatch
\* primitive per implemented event and one update primitive per store
RECURSIVE DispatchersOf(_, _, _)
DispatchersOf(module, int, methods) ==
    IF methods = <<>> THEN <<>>
    ELSE LET method == Head(methods)
             info == methodTagInfo(method)
             mine == IF info.event /\ ~info.notImplemented
                     THEN <<[method |-> method.name, kind |-> "dispatch",
                             channel |-> ipcMessage(module, int, method)]>>
                     ELSE IF info.store
                     THEN <<[method |-> method.name, kind |-> "update",
                             channel |-> ipcStoreMessage(module, int, method, "update")]>>
                     ELSE <<>>
         IN  mine \o DispatchersOf(module, int, Tail(methods))

\* A rendererDefinition that emits a stub for every method that is not a store
RECURSIVE StubsOf_All(_, _, _)
StubsOf_All(module, int, methods) ==
    IF methods = <<>> THEN <<>>
    ELSE LET method == Head(methods)
             info == methodTagInfo(method)
             mine == IF info.store
                     THEN <<[method |-> method.name, kind |-> "store",
                             channels |-> <<ipcStoreMessage(module, int, method, "getState"),
                                            ipcStoreMessage(module, int, method, "getStateSync"),
                                            ipcStoreMessage(module, int, method, "update")>>]>>
                     ELSE <<[method |-> method.name,
                             kind |-> IF info.event THEN "subscribe"
                                      ELSE IF info.synchronous THEN "sendSync" ELSE "invoke",
                             channels |-> <<ipcMessage(module, int, method)>>]>>
         IN  mine \o StubsOf_All(module, int, Tail(methods))

\* rendererDefinition: the members of the object the preload script may bridge
RECURSIVE StubsOf(_, _, _)
StubsOf(module, int, methods) ==
    IF methods = <<>> THEN <<>>
    ELSE LET method == Head(methods)
             info == methodTagInfo(method)
             mine == IF info.store
                     THEN <<[method |-> method.name, kind |-> "store",
                             channels |-> <<ipcStoreMessage(module, int, method, "getState"),
                                            ipcStoreMessage(module, int, method, "getStateSync"),
                                            ipcStoreMessage(module, int, method, "update")>>]>>
                     ELSE IF ~info.notImplemented
                     THEN <<[method |-> method.name,
                             kind |-> IF info.event THEN "subscribe"
                                      ELSE IF info.synchronous THEN "sendSync" ELSE "invoke",
                             channels |-> <<ipcMessage(module, int, method)>>]>>
                     ELSE <<>>
         IN  mine \o StubsOf(module, int, Tail(methods))

\* interfaceDefinition: the members of I<Interface>Impl
ImplMembers(int) ==
    LET called == SelectSeq(int.methods, LAMBDA m : ~methodTagInfo(m).event
                                /\ ~methodTagInfo(m).notImplemented /\ ~methodTagInfo(m).store)
        stores == SelectSeq(int.methods, LAMBDA m : methodTagInfo(m).store)
    IN  [i \in DOMAIN called |-> [method |-> called[i].name, member |-> "method"]]
        \o [i \in DOMAIN stores |-> [method |-> stores[i].name, member |-> "getInitialState"]]

\* interfaceDefinition: the members of I<Interface>Renderer
RendererMembers(int) ==
    LET called == SelectSeq(int.methods, LAMBDA m : ~methodTagInfo(m).event /\ ~methodTagInfo(m).store)
        events == SelectSeq(int.methods, LAMBDA m : methodTagInfo(m).event)
        stores == SelectSeq(int.methods, LAMBDA m : methodTagInfo(m).store)
    IN  [i \in DOMAIN called |-> [method |-> called[i].name, member |-> "method"]]
        \o [i \in DOMAIN events |-> [method |-> events[i].name, member |-> "on"]]
        \o [i \in DOMAIN stores |-> [method |-> stores[i].name, member |-> "Store"]]

\* wireInterface: interfaceTagInfo and every methodTagInfo are evaluated, and
\* may throw, before the first controller.add* call
wireInterface(int, module, controller) ==
    LET intInfo == interfaceTagInfo(int)
        bad == {m \in DOMAIN int.methods : methodTagInfo(int.methods[m]).error # NoError}
        stores == SelectSeq(int.methods, LAMBDA m : methodTagInfo(m).store)
    IN  IF intInfo.error # NoError THEN WireThrows(intInfo.error, controller)
        ELSE IF bad # {}
        THEN WireThrows(methodTagInfo(int.methods[CHOOSE m \in bad : \A k \in bad : m <= k]).error,
                        controller)
        ELSE Wired([controller EXCEPT
                !.preloadBridgeInitializers =
                    IF intInfo.autoContextBridge THEN Append(@, BridgeKey(module, int)) ELSE @,
                !.commonCode = Append(@, [kind |-> "apiTypes", name |-> int.name,
                                          impl |-> ImplMembers(int),
                                          renderer |-> RendererMembers(int)]),
                !.browserCode = Append(@, [kind |-> "implementation", name |-> int.name,
                                           validators |-> intInfo.validators,
                                           handlers |-> HandlersOf(module, int, int.methods),
                                           dis |-> DispatchersOf(module, int, int.methods)]),
                !.preloadCode = Append(@, [kind |-> "definition", name |-> int.name,
                                           validators |-> intInfo.validators,
                                           initializer |-> intInfo.autoContextBridge,
                                           stubs |-> StubsOf(module, int, int.methods)]),
                !.rendererHooksCode =
                    IF stores # <<>> /\ intInfo.autoContextBridge
                    THEN @ \o [i \in DOMAIN stores |-> [kind |-> "hook", name |-> int.name,
                                                        store |-> stores[i].name]]
                    ELSE @])

\* One iteration of the wiring loop of buildWiring
wireElement(elem, module, env, controller) ==
    CASE elem.type = "Enum" -> wireEnum(elem, controller)
      [] elem.type = "Structure" -> wireStructure(elem, controller)
      [] elem.type = "Validator" -> wireValidatorElement(elem, env, controller)
      [] elem.type = "Interface" -> wireInterface(elem, module, controller)
      [] elem.type = "SubType" -> wireSubType(elem, controller, module)
      [] elem.type = "ZodReference" -> wireZodReference(elem, controller)

\* One run of buildWiring: where it is, what it was given, what it has thrown
\* and what its Controller holds
NoModule == Module("", <<>>)
NoBuild ==
    [pc |-> "idle", module |-> NoModule, env |-> NoEnv, allowedTypes |-> {}, position |-> 0,
     errors |-> <<>>, failedIn |-> "", controller |-> EmptyController]

NewBuild(module, env) == [NoBuild EXCEPT !.pc = "collecting", !.module = module, !.env = env]

Failed(b, stage, errors) == [b EXCEPT !.pc = "failed", !.failedIn = stage, !.errors = errors]

\* buildWiring, first pass
CollectTypes(b) ==
    LET first == FirstPass(b.module)
    IN  IF first.error # NoError THEN Failed(b, "collecting", <<first.error>>)
        ELSE [b EXCEPT !.pc = "validating", !.allowedTypes = first.allowedTypes]

\* buildWiring, validateModule(module, allowedTypes)
Validate(b) ==
    LET errors == validateModule(b.module, b.allowedTypes)
    IN  IF errors # <<>> THEN Failed(b, "validating", errors)
        ELSE [b EXCEPT !.pc = "wiring", !.position = 1]

\* buildWiring, one iteration of the wiring loop
WireNext(b) ==
    LET r == wireElement(b.module.elements[b.position], b.module, b.env, b.controller)
    IN  IF r.error # NoError
        THEN [Failed(b, "wiring", <<r.error>>) EXCEPT !.controller = r.controller]
        ELSE [b EXCEPT !.position = @ + 1, !.controller = r.controller]

\* buildWiring, after the loop: the output files are built from the Controller
BuildOutput(b) == [b EXCEPT !.pc = "done"]

BuildStep(b) ==
    CASE b.pc = "collecting" -> CollectTypes(b)
      [] b.pc = "validating" -> Validate(b)
      [] b.pc = "wiring" /\ b.position <= Len(b.module.elements) -> WireNext(b)
      [] b.pc = "wiring" /\ b.position > Len(b.module.elements) -> BuildOutput(b)
      [] OTHER -> b

RECURSIVE RunBuild(_)
RunBuild(b) == IF b.pc \in {"done", "failed"} THEN b ELSE RunBuild(BuildStep(b))

buildWiring(module, env) == RunBuild(NewBuild(module, env))

(***************************************************************************)
(* generateWiring (index.ts): the wiring folder on disk and one call.      *)
(***************************************************************************)
\* The file a generated folder is recognised by
Marker == ".eipc-generated"
\* What the call writes for a module, one file per output directory
GeneratedFiles ==
    {"browser/m.ts", "preload/m.ts", "renderer/m.ts", "renderer-hooks/m.ts", "common/m.ts",
     "common-runtime/m.ts", "_internal/browser/m.ts", "_internal/preload/m.ts",
     "_internal/renderer/m.ts", "_internal/renderer-hooks/m.ts", "_internal/common/m.ts",
     "_internal/common-runtime/m.ts"}

NoFolder ==
    [exists |-> FALSE, files |-> {}, pc |-> "idle", module |-> NoModule,
     before |-> [exists |-> FALSE, files |-> {}]]

\* The schema files are read and parsed; a parse error is thrown before the
\* wiring folder is looked at
ParseSchemas(f, parsed, module) ==
    [f EXCEPT !.pc = IF parsed THEN "parsed" ELSE "failed", !.module = module,
              !.before = [exists |-> f.exists, files |-> f.files]]

\* if (fs.existsSync(wiringFolder)) await fs.promises.rm(wiringFolder, { recursive: true })
WipeWiringFolder(f) ==
    IF f.exists THEN [f EXCEPT !.exists = FALSE, !.files = {}, !.pc = "wiped"]
    ELSE [f EXCEPT !.pc = "wiped"]

\* mkdir of the folder and of its output directories
MakeWiringFolder(f) == [f EXCEPT !.exists = TRUE, !.pc = "writing"]

\* buildWiring(module) and the writeFile calls for it
WriteWiring(f) ==
    IF buildWiring(f.module, NoEnv).pc = "failed" THEN [f EXCEPT !.pc = "failed"]
    ELSE [f EXCEPT !.files = @ \cup GeneratedFiles, !.pc = "done"]

(***************************************************************************)
(* target.ipc, the handler registry of one target, and setImplementation   *)
(* (wiring/interface.ts, interfaceImplementation).                         *)
(***************************************************************************)
Targets == {"mainFrame", "webContents"}

Registration(h, impl) == [channel |-> h.channel, transport |-> h.transport, impl |-> impl]

\* ipc.removeHandler(channel) and ipc.removeAllListeners(channel)
ipcRemoveHandler(regs, channel) ==
    SelectSeq(regs, LAMBDA r : ~(r.channel = channel /\ r.transport = "handle"))
ipcRemoveAllListeners(regs, channel) ==
    SelectSeq(regs, LAMBDA r : ~(r.channel = channel /\ r.transport = "on"))

\* ipc.handle(channel, fn) throws when the channel has a handler; ipc.on adds
\* one more listener
ipcHandleThrows(regs, channel) ==
    \E i \in DOMAIN regs : regs[i].channel = channel /\ regs[i].transport = "handle"

\* Registration without the removal of what the channel held
RegisterHandler_NoRemove(ipc, h, impl) ==
    IF ipc.thrown THEN ipc
    ELSE IF h.transport = "handle" /\ ipcHandleThrows(ipc.regs, h.channel)
    THEN [ipc EXCEPT !.thrown = TRUE]
    ELSE [ipc EXCEPT !.regs = Append(@, Registration(h, impl))]

\* target.ipc.removeHandler(ch); target.ipc.handle(ch, ...)  or
\* target.ipc.removeAllListeners(ch); target.ipc.on(ch, ...)
RegisterHandler(ipc, h, impl) ==
    IF ipc.thrown THEN ipc
    ELSE LET removed == IF h.transport = "handle" THEN ipcRemoveHandler(ipc.regs, h.channel)
                        ELSE ipcRemoveAllListeners(ipc.regs, h.channel)
         IN  IF h.transport = "handle" /\ ipcHandleThrows(removed, h.channel)
             THEN [ipc EXCEPT !.regs = removed, !.thrown = TRUE]
             ELSE [ipc EXCEPT !.regs = Append(removed, Registration(h, impl))]

\* setImplementation(impl) on one target: every handler of the interface, in
\* the order of the generated code
RECURSIVE RegisterAll(_, _, _)
RegisterAll(ipc, hs, impl) ==
    IF hs = <<>> THEN ipc ELSE RegisterAll(RegisterHandler(ipc, Head(hs), impl), Tail(hs), impl)

setImplementation(ipc, impl) == RegisterAll([ipc EXCEPT !.thrown = FALSE], Handlers, impl)

\* The implementations that serve a message arriving on a channel
ServedBy(regs, channel) ==
    LET on == SelectSeq(regs, LAMBDA r : r.channel = channel)
    IN  [i \in DOMAIN on |-> on[i].impl]

NoServed == [target |-> "", channel |-> <<>>, by |-> <<>>, latest |-> 0]
NoRegistry ==
    [ipc |-> [t \in Targets |-> [regs |-> <<>>, thrown |-> FALSE]],
     sets |-> [t \in Targets |-> 0],
     served |-> NoServed]

(***************************************************************************)
(* The calls the model sends: who calls, and with what.                    *)
(***************************************************************************)
AppURL == <<"app:", "//", "test", "/index.html">>
EvilURL == <<"https:", "//", "evil.example", "/index.html">>

Contexts ==
    { Context(Frame(TRUE, AppURL, TRUE), FALSE, {"testGlobalFlag"}),
      Context(Frame(TRUE, AppURL, TRUE), FALSE, {}),
      Context(Frame(TRUE, AppURL, FALSE), FALSE, {"testGlobalFlag"}),
      Context(Frame(TRUE, EvilURL, TRUE), FALSE, {"testGlobalFlag"}) }

ArgumentLists ==
    { <<JSNumber("7"), JSArray(<<JSString("a")>>)>>,
      <<JSNumber("7"), JSArray(<<JSNumber("7")>>)>>,
      <<JSString("k")>> }

ImplOutcomes ==
    { Returns(JSNumber("42")), Returns(JSNull),
      Throws(ErrorObject(<<"Intentional error">>)),
      Throws(ErrorObject(<<>>)),
      Throws(ThrownValue(JSString("oops"))) }

IdleCall ==
    [pc |-> "idle", handler |-> 0, ctx |-> Context(Frame(FALSE, <<>>, FALSE), FALSE, {}),
     args |-> <<>>, trace |-> <<>>, invoked |-> FALSE, failed |-> FALSE,
     reply |-> NoReply, stub |-> NotReturned]

CallIds == 1..MaxCalls

(***************************************************************************)
(* Initial state, shared by the specifications below.                      *)
(***************************************************************************)
NoHook == [pc |-> "unrendered", storeState |-> [state |-> "none", result |-> JSUndefined, error |-> <<>>],
           cancelled |-> FALSE, observed |-> <<>>, subscribed |-> 0, unsubscribed |-> 0,
           exposed |-> FALSE, late |-> {},
           ctx |-> Context(Frame(FALSE, <<>>, FALSE), FALSE, {})]
NoFetch == [status |-> "none", reply |-> NoReply]

NoneSent == [attempts |-> 0, log |-> <<>>]
NotLoaded == [loaded |-> FALSE, ctx |-> Context(Frame(FALSE, <<>>, FALSE), FALSE, {}), world |-> {}]

Init ==
    /\ calls = [c \in CallIds |-> IdleCall]
    /\ hook = NoHook
    /\ fetch = NoFetch
    /\ pushes = <<>>
    /\ counterValue = JSNumber("0")
    /\ pushCount = 0
    /\ listeners = <<>>
    /\ subs = <<>>
    /\ delivered = <<>>
    /\ sent = NoneSent
    /\ bridged = NotLoaded
    /\ build = NoBuild
    /\ tracing = NoTrace
    /\ folder = NoFolder
    /\ registry = NoRegistry

(***************************************************************************)
(* SpecDispatch: calls arriving at the dispatchers of one target.  A       *)
(* handler runs without interruption up to its await of the user           *)
(* implementation, and again from the settling of that await to its end;   *)
(* other calls may be handled in between.  The stub's unwrapping of the    *)
(* reply is part of the step that produces the reply.                      *)
(***************************************************************************)
Dispatch(c, k, ctx, args) ==
    /\ calls[c].pc = "idle"
    /\ \A d \in 1..(c - 1) : calls[d].pc # "idle"
    /\ LET h == Handlers[k]
           bound == BindArguments(h, args)
           e == HandlerEnter(h, TestAPI, ctx, bound)
           reply == ReplyOf(h, e.exit, JSUndefined)
       IN  calls' = [calls EXCEPT ![c] =
                IF e.exit.thrown
                THEN [pc |-> "done", handler |-> k, ctx |-> ctx, args |-> bound,
                      trace |-> e.trace, invoked |-> e.invoked, failed |-> TRUE,
                      reply |-> reply, stub |-> StubOf(h, reply)]
                ELSE [pc |-> "awaiting", handler |-> k, ctx |-> ctx, args |-> bound,
                      trace |-> e.trace, invoked |-> e.invoked, failed |-> FALSE,
                      reply |-> NoReply, stub |-> NotReturned]]
    /\ UNCHANGED <<hook, fetch, pushes, counterValue, pushCount, listeners, subs, delivered, sent, bridged, build, tracing, folder, registry>>

\* A handler whose reply lands on the call that was dispatched last, as if
\* the handlers shared one event object
Settle_LastEvent(c, outcome) ==
    /\ calls[c].pc = "awaiting"
    /\ LET h == Handlers[calls[c].handler]
           r == HandlerResume(h, outcome)
           reply == ReplyOf(h, r.exit, r.value)
           last == CHOOSE d \in CallIds :
                        /\ calls[d].pc = "awaiting"
                        /\ \A e \in CallIds : calls[e].pc = "awaiting" => e <= d
       IN  calls' = [calls EXCEPT ![last] =
                [@ EXCEPT !.pc = "done", !.trace = @ \o r.trace, !.failed = r.exit.thrown,
                          !.reply = reply, !.stub = StubOf(h, reply)]]
    /\ UNCHANGED <<hook, fetch, pushes, counterValue, pushCount, listeners, subs, delivered, sent, bridged, build, tracing, folder, registry>>

Settle(c, outcome) ==
    /\ calls[c].pc = "awaiting"
    /\ LET h == Handlers[calls[c].handler]
           r == HandlerResume(h, outcome)
           reply == ReplyOf(h, r.exit, r.value)
       IN  calls' = [calls EXCEPT ![c] =
                [@ EXCEPT !.pc = "done", !.trace = @ \o r.trace, !.failed = r.exit.thrown,
                          !.reply = reply, !.stub = StubOf(h, reply)]]
    /\ UNCHANGED <<hook, fetch, pushes, counterValue, pushCount, listeners, subs, delivered, sent, bridged, build, tracing, folder, registry>>

NextDispatch ==
    \/ \E c \in CallIds, k \in DOMAIN Handlers, ctx \in Contexts, args \in ArgumentLists :
            Dispatch(c, k, ctx, args)
    \/ \E c \in CallIds, outcome \in ImplOutcomes : Settle(c, outcome)

SpecDispatch == Init /\ [][NextDispatch]_vars

(***************************************************************************)
(* Properties of the dispatchers and stubs, under SpecDispatch.            *)
(***************************************************************************)
\* What the schema says about a call, stated without the dispatcher's own helpers
AccessGranted(ctx) ==
    /\ browserEventValidator(EmittedValidators["TrustedApp"], ctx)
    /\ browserEventValidator(EmittedValidators["MainOrPackaged"], ctx)

ArgumentsValid(call) ==
    LET h == Handlers[call.handler]
    IN  \A i \in DOMAIN h.arguments :
            validatorFnOrPrimitiveValidator(h.arguments[i].type, call.args[i],
                                            h.arguments[i].nullable, h.arguments[i].optional)

IsPrefix(s, t) == Len(s) <= Len(t) /\ SubSeq(t, 1, Len(s)) = s

\* C1: every call that reaches a dispatcher (plain, synchronous, store
\* accessor) has the interface's access validators evaluated on it first, and
\* the user implementation is invoked only when all of them pass, whatever the
\* preload-side form of the validators says about the calling frame.
C1_PrivilegedRevalidation ==
    \A c \in CallIds :
        calls[c].pc # "idle" =>
            /\ calls[c].trace[1] = "validating-caller"
            /\ calls[c].invoked => AccessGranted(calls[c].ctx)
            /\ ~AccessGranted(calls[c].ctx) =>
                    /\ calls[c].pc = "done"
                    /\ calls[c].reply.tag \in {"error", "rejected"}

\* C1 witness: a frame to which the preload would offer the interface (its
\* dynamic flag and packaged-build conditions compile to a pass there) is
\* refused by the dispatcher, next to a call that is served.
C1_Witness ==
    \E c, d \in CallIds :
        /\ calls[c].pc = "done" /\ Exposes(TestAPI, calls[c].ctx)
        /\ ~AccessGranted(calls[c].ctx) /\ ~calls[c].invoked
        /\ Handlers[calls[c].handler].store
        /\ calls[d].pc = "done" /\ calls[d].invoked /\ ~calls[d].failed

\* C2: a finished synchronous dispatch has set event.returnValue to {result}
\* when nothing failed and to {error} when anything failed; it never ends
\* without a reply and never lets the failure out of the handler.
C2_SyncTaggedOutcome ==
    \A c \in CallIds :
        (calls[c].pc = "done" /\ Handlers[calls[c].handler].transport = "on") =>
            /\ calls[c].reply.tag \in {"result", "error"}
            /\ calls[c].failed <=> calls[c].reply.tag = "error"

\* C2 witness: synchronous dispatches that failed at the caller check, at an
\* argument, in the user implementation and at the result, and one that
\* succeeded.
C2_Witness ==
    \E c, d \in CallIds :
        /\ calls[c].pc = "done" /\ Handlers[calls[c].handler].transport = "on"
        /\ calls[c].invoked /\ calls[c].failed /\ calls[c].reply.tag = "error"
        /\ calls[d].pc = "done" /\ Handlers[calls[d].handler].transport = "on"
        /\ ~calls[d].failed /\ calls[d].reply.tag = "result"

\* C3: the stages of a dispatch are visited in the order validating-caller,
\* validating-args, invoking, validating-result; a stage that fails is the
\* last one, and the implementation is invoked exactly for the calls whose
\* caller and arguments are all valid.
C3_StageOrder ==
    \A c \in CallIds :
        calls[c].pc # "idle" =>
            /\ IsPrefix(calls[c].trace, Stage)
            /\ ~AccessGranted(calls[c].ctx) => calls[c].trace = <<Stage[1]>>
            /\ (AccessGranted(calls[c].ctx) /\ ~ArgumentsValid(calls[c])) =>
                    calls[c].trace = <<Stage[1], Stage[2]>>
            /\ calls[c].invoked <=> (AccessGranted(calls[c].ctx) /\ ArgumentsValid(calls[c]))
            /\ calls[c].invoked <=> (\E i \in DOMAIN calls[c].trace : calls[c].trace[i] = "invoking")
            /\ (calls[c].pc = "done" /\ ~calls[c].failed) =>
                    calls[c].trace = SubSeq(Stage, 1,
                        IF Handlers[calls[c].handler].returnType.present THEN 4 ELSE 3)

\* C3 witness: an asynchronous dispatch stopped at its second argument and a
\* synchronous one that went through all four stages.
C3_Witness ==
    \E c, d \in CallIds :
        /\ calls[c].pc = "done" /\ calls[d].pc = "done"
        /\ Handlers[calls[c].handler].transport = "handle"
        /\ calls[c].trace = <<Stage[1], Stage[2]>> /\ calls[c].failed
        /\ calls[c].args[1] = JSNumber("7")
        /\ Handlers[calls[d].handler].transport = "on"
        /\ calls[d].trace = Stage /\ calls[d].pc = "done"

\* C4: for every synchronous call the stub returns the value of a {result}
\* reply and raises an error for every {error} reply.
C4_StubReraises ==
    \A c \in CallIds :
        (calls[c].pc = "done" /\ Handlers[calls[c].handler].transport = "on") =>
            /\ calls[c].reply.tag = "result" => calls[c].stub = StubReturns(calls[c].reply.result)
            /\ calls[c].reply.tag = "error" => calls[c].stub.kind = "throw"

\* What a call in flight can be answered with, given its own handler only
OwnReplies(call) ==
    LET h == Handlers[call.handler]
    IN  { ReplyOf(h, HandlerResume(h, outcome).exit, HandlerResume(h, outcome).value) :
            outcome \in ImplOutcomes }

\* C15: calls in flight at once do not affect one another.  A step of the
\* dispatcher changes one call and leaves every other call, finished or in
\* flight, as it was; whether a call is refused on entry depends on its own
\* caller and arguments; the reply of a call that was awaiting is one that its
\* own handler gives for an outcome of the implementation, keeps the call's
\* caller and arguments, and is final.
C15_CallsIndependent ==
    [][\A c \in CallIds :
        calls'[c] # calls[c] =>
            /\ \A d \in CallIds \ {c} : calls'[d] = calls[d]
            /\ calls[c].pc # "done"
            /\ calls[c].pc = "idle" =>
                    /\ calls'[c].pc = "done" <=>
                            ~(AccessGranted(calls'[c].ctx) /\ ArgumentsValid(calls'[c]))
                    /\ calls'[c].pc = "awaiting" <=>
                            (AccessGranted(calls'[c].ctx) /\ ArgumentsValid(calls'[c]))
            /\ calls[c].pc = "awaiting" =>
                    /\ calls'[c].pc = "done"
                    /\ calls'[c].handler = calls[c].handler
                    /\ calls'[c].ctx = calls[c].ctx
                    /\ calls'[c].args = calls[c].args
                    /\ calls'[c].reply \in OwnReplies(calls[c])
                    /\ calls'[c].stub = StubOf(Handlers[calls[c].handler], calls'[c].reply)]_vars

\* C15 witness: a synchronous call was dispatched and answered while an
\* asynchronous call dispatched before it is still awaiting its implementation
C15_Witness ==
    /\ calls[1].pc = "awaiting" /\ Handlers[calls[1].handler].transport = "handle"
    /\ calls[2].pc = "done" /\ calls[2].invoked /\ ~calls[2].failed
    /\ Handlers[calls[2].handler].transport = "on"

(***************************************************************************)
(* SpecHook: one use<X>Store() instance in one frame, the store's owner in *)
(* the main process, and the messages between them.  Update messages are   *)
(* delivered in the order sent; the reply to getState travels              *)
(* independently of them.                                                  *)
(***************************************************************************)
CounterStore == TestAPI.methods[5]

PushValues == {JSNumber("1"), JSNumber("2"), JSNull}

FetchOutcomes(current) == {Returns(current), Throws(ErrorObject(<<"Intentional error">>))}

\* First render of the component in a frame
Render(ctx) ==
    /\ hook.pc = "unrendered"
    /\ hook' = HookRender(hook, ctx)
    /\ UNCHANGED <<calls, fetch, pushes, counterValue, pushCount, listeners, subs, delivered, sent, bridged, build, tracing, folder, registry>>

\* useEffect(() => { ... }, []) after the first commit
Effect ==
    /\ hook.pc = "rendered"
    /\ IF ~hook.exposed
       THEN /\ hook' = [hook EXCEPT !.pc = "mounted"]
            /\ UNCHANGED <<fetch, listeners>>
       ELSE /\ hook' = [hook EXCEPT !.pc = "mounted", !.cancelled = FALSE, !.subscribed = @ + 1]
            /\ fetch' = [status |-> "sent", reply |-> NoReply]
            /\ listeners' = ipcRendererOn(listeners, UpdateChannel, HookHandler)
    /\ UNCHANGED <<calls, pushes, counterValue, pushCount, subs, delivered, sent, bridged, build, tracing, folder, registry>>

\* The main process answers the getState call of the hook
FetchHandled(outcome) ==
    /\ fetch.status = "sent"
    /\ LET h == Handlers[GetStateHandler]
           e == HandlerEnter(h, TestAPI, hook.ctx, <<>>)
           r == HandlerResume(h, outcome)
       IN  fetch' = [status |-> "replied",
                     reply |-> IF e.exit.thrown
                               THEN ReplyOf(h, e.exit, JSUndefined)
                               ELSE ReplyOf(h, r.exit, r.value)]
    /\ UNCHANGED <<calls, hook, pushes, counterValue, pushCount, listeners, subs, delivered, sent, bridged, build, tracing, folder, registry>>

\* The promise of store.getState() settles in the renderer
FetchSettles ==
    /\ fetch.status = "replied"
    /\ fetch' = [fetch EXCEPT !.status = "settled"]
    /\ LET answer == InvokeStub(fetch.reply)
           h == [hook EXCEPT !.late = IF hook.pc = "unmounted" THEN @ \cup {"fetch"} ELSE @]
       IN  hook' = IF answer.kind = "return"
                   THEN HookOnFetchResolved(h, answer.value)
                   ELSE HookOnFetchRejected(h, answer.message)
    /\ UNCHANGED <<calls, pushes, counterValue, pushCount, listeners, subs, delivered, sent, bridged, build, tracing, folder, registry>>

\* The owner of the store changes it and broadcasts (test-app updateCounter)
UpdateStore(value) ==
    /\ pushCount < MaxPush
    /\ pushCount' = pushCount + 1
    /\ counterValue' = value
    /\ pushes' = IF UpdateStoreSends(CounterStore, value) THEN Append(pushes, value) ELSE pushes
    /\ UNCHANGED <<calls, hook, fetch, listeners, subs, delivered, sent, bridged, build, tracing, folder, registry>>

\* The oldest update message reaches the renderer
DeliverPush ==
    /\ pushes # <<>>
    /\ pushes' = Tail(pushes)
    /\ LET called == HandlersCalled(listeners, UpdateChannel)
           h == [hook EXCEPT !.late = IF hook.pc = "unmounted" THEN @ \cup {"push"} ELSE @]
       IN  hook' = IF \E i \in DOMAIN called : called[i] = HookHandler
                   THEN HookOnStateChange(h, Head(pushes))
                   ELSE h
    /\ UNCHANGED <<calls, fetch, counterValue, pushCount, listeners, subs, delivered, sent, bridged, build, tracing, folder, registry>>

\* The component unmounts: the effect's cleanup runs
Unmount ==
    /\ hook.pc = "mounted"
    /\ IF ~hook.exposed
       THEN /\ hook' = [hook EXCEPT !.pc = "unmounted"]
            /\ UNCHANGED listeners
       ELSE /\ hook' = [hook EXCEPT !.pc = "unmounted", !.cancelled = TRUE,
                                    !.unsubscribed = @ + 1]
            /\ listeners' = HookCleanupListeners(listeners)
    /\ UNCHANGED <<calls, fetch, pushes, counterValue, pushCount, subs, delivered, sent, bridged, build, tracing, folder, registry>>

NextHook ==
    \/ \E ctx \in Contexts : Render(ctx)
    \/ Effect
    \/ \E outcome \in FetchOutcomes(counterValue) : FetchHandled(outcome)
    \/ FetchSettles
    \/ \E value \in PushValues : UpdateStore(value)
    \/ DeliverPush
    \/ Unmount

SpecHook == Init /\ [][NextHook]_vars

(***************************************************************************)
(* Properties of the store hook, under SpecHook.                           *)
(***************************************************************************)
\* The step in which the getState promise of a mounted hook settles
FetchArrives == fetch.status = "replied" /\ fetch'.status = "settled"
\* The step in which an update message reaches the renderer
PushArrives == pushes # <<>> /\ pushes' = Tail(pushes)
\* The hook's effect has run and its cleanup has not
Mounted == hook.pc = "mounted" /\ hook.exposed

C6_PushMakesReady ==
    [][(Mounted /\ PushArrives) =>
            /\ hook'.storeState = StoreReady(Head(pushes))
            /\ hook'.observed = Append(hook.observed, StoreReady(Head(pushes)))]_vars

\* C6 witness: pushes took the hook from 'error' to 'ready' and from 'ready'
\* to 'ready' with a new value
C6_Witness ==
    /\ Len(hook.observed) = 4
    /\ hook.observed[2].state = "error"
    /\ hook.observed[3] = StoreReady(JSNumber("1"))
    /\ hook.observed[4] = StoreReady(JSNumber("2"))

\* C7: once the hook is torn down nothing changes its state: a fetch result
\* or a push arriving later is dropped.
C7_NoChangeAfterTeardown ==
    [][hook.pc = "unmounted" =>
            /\ hook'.storeState = hook.storeState
            /\ hook'.observed = hook.observed]_vars

\* C7 witness: a fetch result and a push both arrived after teardown
C7_Witness ==
    /\ hook.pc = "unmounted" /\ hook.exposed /\ hook.late = {"fetch", "push"}
    /\ fetch.status = "settled" /\ fetch.reply.tag = "resolved"
    /\ hook.observed = <<StoreLoading>>

\* C8: a mounted hook holds exactly one subscription, and its teardown calls
\* the unsubscribe closure exactly once, leaving no listener behind.
C8_UnsubscribeOnce ==
    /\ hook.subscribed <= 1 /\ hook.unsubscribed <= hook.subscribed
    /\ Mounted =>
            /\ hook.subscribed = 1 /\ hook.unsubscribed = 0
            /\ listeners = <<Listener(UpdateChannel, HookHandler)>>
    /\ (hook.pc = "unmounted" /\ hook.exposed) =>
            /\ hook.subscribed = 1 /\ hook.unsubscribed = 1
            /\ listeners = <<>>

\* C8 witness: a hook that subscribed and was torn down
C8_Witness == hook.pc = "unmounted" /\ hook.subscribed = 1 /\ hook.unsubscribed = 1

\* C9: when the initial fetch of a mounted hook fails, the hook becomes
\* 'error' carrying the failure.
C9_FetchFailureIsError ==
    [][(Mounted /\ FetchArrives /\ fetch.reply.tag = "rejected") =>
            hook'.storeState = StoreError(InvokeStub(fetch.reply).message)]_vars

\* C9 witness: the hook in 'error' after a rejected fetch, from 'loading' and
\* from 'ready'
C9_Witness ==
    /\ hook.storeState.state = "error" /\ fetch.reply.tag = "rejected"
    /\ Len(hook.observed) = 3 /\ hook.observed[2].state = "ready"

(***************************************************************************)
(* SpecSub: code in one frame subscribing to the event and to the store's  *)
(* updates through the preload stubs, calling the returned closures any    *)
(* number of times, while messages arrive.                                 *)
(***************************************************************************)
SubscribeChannels == {EventChannel, UpdateChannel}
Callbacks == {"f", "g"}

\* on<Event>(fn) / onStateChange(fn): a new handler closure is registered
Subscribe(channel, fn) ==
    /\ Len(subs) < MaxSubs
    /\ LET handler == HookHandler + Len(subs) + 1
       IN  /\ listeners' = ipcRendererOn(listeners, channel, handler)
           /\ subs' = Append(subs, [channel |-> channel, fn |-> fn, handler |-> handler, calls |-> 0])
    /\ UNCHANGED <<calls, hook, fetch, pushes, counterValue, pushCount, delivered, sent, bridged, build, tracing, folder, registry>>

\* The closure returned by the i-th subscription is called
Unsubscribe(i) ==
    /\ subs[i].calls < MaxUnsubCalls
    /\ listeners' = ipcRendererRemoveListener(listeners, subs[i].channel, subs[i].handler)
    /\ subs' = [subs EXCEPT ![i].calls = @ + 1]
    /\ UNCHANGED <<calls, hook, fetch, pushes, counterValue, pushCount, delivered, sent, bridged, build, tracing, folder, registry>>

\* A message arrives on a channel: the callbacks it reaches, in order
Emit(channel) ==
    /\ LET called == HandlersCalled(listeners, channel)
       IN  delivered' = [i \in DOMAIN called |->
                            LET j == CHOOSE j \in DOMAIN subs : subs[j].handler = called[i]
                            IN  [sub |-> j, fn |-> subs[j].fn]]
    /\ UNCHANGED <<calls, hook, fetch, pushes, counterValue, pushCount, listeners, subs, sent, bridged, build, tracing, folder, registry>>

NextSub ==
    \/ \E channel \in SubscribeChannels, fn \in Callbacks : Subscribe(channel, fn)
    \/ \E i \in DOMAIN subs : Unsubscribe(i)
    \/ \E channel \in SubscribeChannels : Emit(channel)

SpecSub == Init /\ [][NextSub]_vars

\* The listeners of the subscriptions whose closure was never called
LiveListeners ==
    LET live == SelectSeq(subs, LAMBDA sub : sub.calls = 0)
    IN  [i \in DOMAIN live |-> Listener(live[i].channel, live[i].handler)]

\* C10: the first call of a subscription's closure removes that subscription's
\* handler and no other; any later call of it leaves the listeners as they
\* are. So the listeners are always exactly the handlers of the subscriptions
\* whose closure has not been called, and a repeated call changes nothing.
C10_UnsubscribeIdempotent ==
    /\ [](listeners = LiveListeners)
    /\ [][\A i \in DOMAIN subs :
            (i \in DOMAIN subs' /\ subs[i].calls >= 1 /\ subs'[i].calls > subs[i].calls)
                => listeners' = listeners]_vars

\* C10 witness: two subscriptions of the same callback on one channel; the
\* closure of the first was called twice and the second still receives
C10_Witness ==
    /\ Len(subs) = 2
    /\ subs[1].channel = subs[2].channel /\ subs[1].fn = subs[2].fn
    /\ subs[1].calls = 2 /\ subs[2].calls = 0
    /\ delivered = <<[sub |-> 2, fn |-> subs[2].fn]>>

(***************************************************************************)
(* SpecPush: a frame loads its preload script while the main process uses  *)
(* the push primitives of the dispatcher object: dispatch<Event> and       *)
(* update<X>Store.                                                         *)
(***************************************************************************)
ValueChangedEvent == TestAPI.methods[6]

EventArgumentLists ==
    { <<JSString("v")>>, <<JSNumber("7")>>, <<JSNull>>, <<>> }

\* dis.dispatchOnValueChanged(...args) in the main process
DispatchEvent(args) ==
    /\ sent.attempts < MaxEvents
    /\ LET bound == BindArguments(ValueChangedEvent, args)
       IN  sent' = [attempts |-> sent.attempts + 1,
                    log |-> IF DispatchEventSends(ValueChangedEvent, bound)
                            THEN Append(sent.log, Message(EventChannel, bound))
                            ELSE sent.log]
    /\ UNCHANGED <<calls, hook, fetch, pushes, counterValue, pushCount, listeners, subs, delivered,
                   bridged, build, tracing, folder, registry>>

\* The preload script of a frame runs: every initializer is applied to
\* $$bridged$$ and each of its keys is exposed in the main world (wire.ts)
PreloadInit(ctx) ==
    /\ ~bridged.loaded
    /\ bridged' = [loaded |-> TRUE, ctx |-> ctx,
                   world |-> BridgeInitializer(TestModule, TestAPI, ctx, {})]
    /\ UNCHANGED <<calls, hook, fetch, pushes, counterValue, pushCount, listeners, subs, delivered,
                   sent, build, tracing, folder, registry>>

NextPush ==
    \/ \E args \in EventArgumentLists : DispatchEvent(args)
    \/ \E value \in PushValues : UpdateStore(value)
    \/ DeliverPush
    \/ \E ctx \in Contexts : PreloadInit(ctx)

SpecPush == Init /\ [][NextPush]_vars

\* C11: every message a push primitive sends carries a payload that passes
\* its type predicate: each event message holds arguments of the declared
\* types, each store update holds a state of the store's type, and a call of
\* a primitive with a payload that fails sends nothing.
C11_PushValidatesPayload ==
    /\ [](/\ \A i \in DOMAIN sent.log :
                /\ sent.log[i].channel = EventChannel
                /\ Len(sent.log[i].args) = Len(ValueChangedEvent.arguments)
                /\ \A j \in DOMAIN ValueChangedEvent.arguments :
                        validatorFnOrPrimitiveValidator(
                            ValueChangedEvent.arguments[j].type, sent.log[i].args[j],
                            ValueChangedEvent.arguments[j].nullable,
                            ValueChangedEvent.arguments[j].optional)
          /\ \A i \in DOMAIN pushes :
                validatorFnOrPrimitiveValidator(CounterStore.returnType.type, pushes[i],
                                                CounterStore.returnType.nullable, FALSE))
    /\ [][(pushCount' = pushCount + 1 /\ TypeOf(counterValue') # "number") =>
                pushes' = pushes]_vars

\* C11 witness: a dispatch with a number for the string argument and an update
\* with null for the number state were refused, next to a dispatch that sent
C11_Witness ==
    /\ sent.attempts = 2 /\ Len(sent.log) = 1
    /\ pushCount = 1 /\ counterValue = JSNull /\ pushes = <<>>

\* C14: after the preload script ran in a frame, the interface is on the
\* context bridge exactly when each of its validators, in its preload form,
\* evaluates to true in that frame; otherwise nothing of it is exposed.
C14_BridgedOnlyIfValid ==
    bridged.loaded =>
        /\ bridged.world \subseteq {BridgeKey(TestModule, TestAPI)}
        /\ (BridgeKey(TestModule, TestAPI) \in bridged.world) <=>
                /\ rendererExposeValidator(EmittedValidators["TrustedApp"], bridged.ctx)
                /\ rendererExposeValidator(EmittedValidators["MainOrPackaged"], bridged.ctx)

\* C14 witness: the preload ran in a frame of another origin and exposed nothing
C14_Witness ==
    /\ bridged.loaded /\ bridged.world = {}
    /\ bridged.ctx.frame.url = EvilURL

(***************************************************************************)
(* SpecCompile: one run of buildWiring over a schema module, a step per    *)
(* pass and per iteration of the wiring loop.                              *)
(***************************************************************************)
StringArgument == Argument("x", TypeRef("string", FALSE), FALSE, FALSE)
NumberReturn == ReturnType(TypeRef("number", FALSE), FALSE)
StringReturn == ReturnType(TypeRef("string", FALSE), FALSE)

\* The method declarations the schemas are made of
MethodVariants ==
    { Method("a", <<>>, <<StringArgument>>, NumberReturn),
      Method("_a", <<>>, <<>>, NoType),
      Method("b", <<"Sync">>, <<StringArgument>>, NumberReturn),
      Method("b", <<"Event">>, <<StringArgument>>, NoType),
      Method("b", <<"Event">>, <<>>, StringReturn),
      Method("b", <<"Event", "Sync">>, <<>>, NoType),
      Method("b", <<"Event", "NotImplemented">>, <<>>, NoType),
      Method("a", <<"Store">>, <<>>, NumberReturn),
      Method("a", <<"Store", "Sync">>, <<>>, NumberReturn),
      Method("a", <<"Store", "Event">>, <<>>, NoType),
      Method("a", <<"Store", "NotImplemented">>, <<>>, NumberReturn),
      Method("a", <<"Store">>, <<StringArgument>>, NumberReturn),
      Method("a", <<"Store">>, <<>>, NoType),
      Method("_a", <<"NotImplemented">>, <<>>, StringReturn) }

TagAPI == [key |-> "RendererAPI", value |-> ""]
TagBridge == [key |-> "ContextBridge", value |-> ""]
TagValidator(name) == [key |-> "Validator", value |-> name]

\* The tag lists of the interface declarations
InterfaceTagVariants ==
    { <<TagAPI, TagValidator("TrustedApp"), TagBridge>>,
      <<TagAPI, TagValidator("TrustedApp")>>,
      <<TagAPI, TagBridge>>,
      <<TagValidator("TrustedApp"), TagBridge>>,
      <<TagAPI, TagAPI, TagValidator("TrustedApp")>>,
      <<TagAPI, TagValidator("")>> }

SeqsUpTo(S, n) == UNION {[1..k -> S] : k \in 1..n}

TrustedAppValidator == ValidatorElement("TrustedApp", Validators.TrustedApp.grammar)

\* Modules of one validator and one interface, of every tag list and every
\* method list
InterfaceModules ==
    { Module("m", <<TrustedAppValidator, InterfaceElement("a", tags, methods)>>) :
        tags \in InterfaceTagVariants, methods \in SeqsUpTo(MethodVariants, MaxMethods) }

\* Elements of modules with several declarations
ElementPool ==
    { TrustedAppValidator,
      EnumElement("User", <<EnumOption("Admin", <<>>), EnumOption("Guest", <<>>)>>),
      StructureElement("User", <<Property("id", TypeRef("Missing", FALSE))>>),
      StructureElement("string", <<>>),
      InterfaceElement("a", <<TagAPI, TagValidator("TrustedApp"), TagBridge>>,
                       <<Method("_a", <<>>, <<>>, NoType),
                         Method("a", <<"Store">>, <<>>, NumberReturn)>>),
      InterfaceElement("a_", <<TagAPI, TagValidator("TrustedApp")>>,
                       <<Method("a", <<"Sync">>, <<>>, NoType),
                         Method("b", <<"Event">>, <<StringArgument>>, NoType)>>),
      InterfaceElement("b", <<TagAPI, TagValidator("TrustedApp")>>,
                       <<Method("b", <<"Event">>, <<>>, StringReturn)>>) }

PoolModules == { Module("m", elements) : elements \in SeqsUpTo(ElementPool, MaxElements) }

\* The options of the enum declarations: implicit values, and explicit values
\* that spell a name or something else
EnumOptions ==
    { EnumOption("A", <<>>), EnumOption("B", <<>>),
      EnumOption("A", <<"\"", "B", "\"">>), EnumOption("B", <<"\"", "B", "\"">>),
      EnumOption("A", <<"\"", "on", "\"">>), EnumOption("B", <<"\"", "on", "\"">>) }

\* Modules of one enum
EnumModules ==
    { Module("m", <<EnumElement("Status", options)>>) : options \in SeqsUpTo(EnumOptions, MaxOptions) }

\* The conditions of the validator declarations: equalities of a string
\* variable, a boolean variable and an unknown one with a string and a boolean
\* literal, a flag of globalThis, and each of them alone inside an OR
AtomicConditions ==
    { ValidatorIs(subject, value) :
        subject \in {"origin", "is_main_frame", "unsupported_var"},
        value \in {StringValue(<<"app:", "//", "test">>), BooleanValue("true")} }
    \cup {ValidatorDynamicGlobal("testGlobalFlag")}

Conditions == AtomicConditions \cup {ValidatorOr(<<c>>) : c \in AtomicConditions}

\* Modules of one validator with a plain grammar
ValidatorModules ==
    { Module("m", <<ValidatorElement("V", ValidatorAnd(conditions))>>) :
        conditions \in SeqsUpTo(Conditions, MaxConditions) }

\* The options of the environment-keyed validators
ValidatorOptions ==
    { ValidatorOption("production", ValidatorAnd(<<ValidatorIs("is_packaged", BooleanValue("true"))>>)),
      ValidatorOption("development", ValidatorAnd(<<ValidatorIs("is_packaged", BooleanValue("false"))>>)),
      ValidatorOption("test", ValidatorAnd(<<ValidatorIs("origin", BooleanValue("true"))>>)) }

\* Modules of one validator keyed by the environment
KeyedValidatorModules ==
    { Module("m", <<ValidatorElement("V", ValidatorStructure(options))>>) :
        options \in SeqsUpTo(ValidatorOptions, MaxBranches) }

Envs == { Env(eipc, node) : eipc \in {"", "development", "staging"}, node \in {"", "test"} }

\* The restrictions of the subtype declarations: of a string, of a number, with
\* a value of the wrong type, and of no primitive
Restrictions ==
    { SubTypeRestriction("minLength", "Number", "5"),
      SubTypeRestriction("minLength", "String", "five"),
      SubTypeRestriction("startsWith", "String", "ab"),
      SubTypeRestriction("minValue", "Number", "0"),
      SubTypeRestriction("pattern", "String", "a+") }

\* Modules of three subtypes, each extending a primitive, another subtype,
\* itself or an undeclared name
SubTypeModules ==
    { Module("m", <<SubTypeElement("A", pa, rs), SubTypeElement("B", pb, <<>>),
                    SubTypeElement("C", pc, <<>>)>>) :
        pa \in {"string", "number", "boolean", "unknown", "A", "B"},
        pb \in {"string", "number", "C", "A"},
        pc \in {"string", "B", "Missing"},
        rs \in SeqsUpTo(Restrictions, MaxRestrictions) }

\* The types of the record fields: references to a primitive, to a declared
\* enum, to a validator, to an interface and to nothing, arrays of them, inline
\* records and maps
FieldTypes ==
    { TypeRef(r, array) : r \in {"string", "unknown", "Role", "TrustedApp", "a", "Missing"},
                          array \in BOOLEAN }
    \cup { StructureBlock(<<Property("in", TypeRef(r, FALSE))>>) :
              r \in {"number", "TrustedApp", "Missing"} }
    \cup { KeyValueBlock(TypeRef(r, FALSE)) : r \in {"number", "a"} }
    \cup { KeyValueBlock(StructureBlock(<<Property("in", TypeRef("Missing", FALSE))>>)) }

ArgumentTypes ==
    { TypeRef("Rec", TRUE), TypeRef("Ext", FALSE), TypeRef("TrustedApp", FALSE),
      TypeRef("Nope", FALSE) }

\* Modules of one declaration of each kind, the record with one field
TypeModules ==
    { Module("m", <<TrustedAppValidator,
                    EnumElement("Role", <<EnumOption("Admin", <<>>), EnumOption("Guest", <<>>)>>),
                    ZodReferenceElement("Ext", <<"\"", "ExtType", "\"">>),
                    StructureElement("Rec", <<StructureProperty("f", type, optional, nullable)>>),
                    InterfaceElement("a", <<TagAPI, TagValidator("TrustedApp")>>,
                        <<Method("a", <<>>, <<Argument("x", arg, FALSE, FALSE)>>,
                                 NumberReturn)>>)>>) :
        type \in FieldTypes, optional \in BOOLEAN, nullable \in BOOLEAN, arg \in ArgumentTypes }

Modules ==
    InterfaceModules \cup PoolModules \cup EnumModules \cup ValidatorModules
        \cup SubTypeModules \cup TypeModules

\* The calls of buildWiring: a module and the environment of the process
Builds == (Modules \X {NoEnv}) \cup (KeyedValidatorModules \X Envs)

OutsideBuild ==
    <<calls, hook, fetch, pushes, counterValue, pushCount, listeners, subs, delivered,
      sent, bridged, tracing, folder, registry>>

\* buildWiring(module) is called
StartBuild(module, env) ==
    /\ build.pc = "idle"
    /\ build' = NewBuild(module, env)
    /\ UNCHANGED OutsideBuild

CollectTypesStep ==
    /\ build.pc = "collecting"
    /\ build' = CollectTypes(build)
    /\ UNCHANGED OutsideBuild

ValidateStep ==
    /\ build.pc = "validating"
    /\ build' = Validate(build)
    /\ UNCHANGED OutsideBuild

WireNextStep ==
    /\ build.pc = "wiring"
    /\ build.position <= Len(build.module.elements)
    /\ build' = WireNext(build)
    /\ UNCHANGED OutsideBuild

BuildOutputStep ==
    /\ build.pc = "wiring"
    /\ build.position > Len(build.module.elements)
    /\ build' = BuildOutput(build)
    /\ UNCHANGED OutsideBuild

NextCompile ==
    \/ \E b \in Builds : StartBuild(b[1], b[2])
    \/ CollectTypesStep
    \/ ValidateStep
    \/ WireNextStep
    \/ BuildOutputStep

SpecCompile == Init /\ [][NextCompile]_vars

(***************************************************************************)
(* SpecSubType: wireSubType traces one subtype of a schema to its base     *)
(* primitive, one iteration of its loop at a time.                         *)
(***************************************************************************)
OutsideTrace ==
    <<calls, hook, fetch, pushes, counterValue, pushCount, listeners, subs, delivered,
      sent, bridged, build, folder, registry>>

\* wireSubType(subType, controller, schema) is called
StartTrace(schema, i) ==
    /\ tracing.pc = "idle"
    /\ tracing' = NewTrace(schema.elements[i], schema)
    /\ UNCHANGED OutsideTrace

\* The loop test and, when it passes, one run of the loop body
TraceLoop ==
    /\ tracing.pc = "tracing"
    /\ tracing' = TraceStep(tracing)
    /\ UNCHANGED OutsideTrace

NextSubType ==
    \/ \E schema \in SubTypeModules : \E i \in DOMAIN schema.elements : StartTrace(schema, i)
    \/ TraceLoop

SpecSubType == Init /\ [][NextSubType]_vars


\* The interface declarations of the module being built
InterfacesOf(module) ==
    {module.elements[i] : i \in {j \in DOMAIN module.elements : module.elements[j].type = "Interface"}}

\* What the Controller holds for an interface, once wired
Emitted(code, kind, int) ==
    {code[i] : i \in {j \in DOMAIN code : code[j].kind = kind /\ code[j].name = int.name}}

Range(seq) == {seq[i] : i \in DOMAIN seq}

\* C12: a method tagged [NotImplemented] is never wired.  In a finished
\* build, no handler that setImplementation registers is for it or listens on
\* its channel, the dispatcher object has no primitive for it, and the preload
\* definition has no stub for it; the I<Interface>Renderer type description of
\* the common code is the only place that mentions a call method so tagged
\* (on<Event> for an event so tagged).
C12_NotImplementedNeverWired ==
    build.pc = "done" =>
        \A int \in InterfacesOf(build.module) : \A m \in DOMAIN int.methods :
            LET method == int.methods[m]
            IN  HasTag(method.tags, "NotImplemented") =>
                  /\ \A impl \in Emitted(build.controller.browserCode, "implementation", int) :
                        /\ \A h \in Range(impl.handlers) :
                              /\ h.method # method.name
                              /\ h.channel # ipcMessage(build.module, int, method)
                        /\ \A d \in Range(impl.dis) : d.method # method.name
                  /\ \A def \in Emitted(build.controller.preloadCode, "definition", int) :
                        \A stub \in Range(def.stubs) :
                              /\ stub.method # method.name
                              /\ ipcMessage(build.module, int, method) \notin Range(stub.channels)
                  /\ \A types \in Emitted(build.controller.commonCode, "apiTypes", int) :
                        /\ \E member \in Range(types.renderer) : member.method = method.name
                        /\ \A member \in Range(types.impl) : member.method # method.name
                  /\ Emitted(build.controller.commonCode, "apiTypes", int) # {}

\* A finished build of an interface with one wired call method and one method
\* tagged [NotImplemented]
C12_Witness ==
    /\ build.pc = "done"
    /\ \E int \in InterfacesOf(build.module) :
          /\ \E m \in DOMAIN int.methods : int.methods[m].tags = <<"NotImplemented">>
          /\ \E impl \in Emitted(build.controller.browserCode, "implementation", int) :
                impl.handlers # <<>>
          /\ \E def \in Emitted(build.controller.preloadCode, "definition", int) :
                Len(def.stubs) = 1

CountTags(int, key) == Cardinality({i \in DOMAIN int.tags : int.tags[i].key = key})

\* An interface without exactly one API-kind tag or without a validator reference
Unguarded(int) ==
    \/ CountTags(int, "RendererAPI") # 1
    \/ \A i \in DOMAIN int.tags : ~(int.tags[i].key = "Validator" /\ int.tags[i].value # "")

\* C13: an interface that lacks the [RendererAPI] tag, carries it more than
\* once, or lacks a [Validator=...] tag is rejected: its build never gets past
\* the wiring loop and never emits its implementation; so every emitted
\* implementation (the dispatchers of an interface) is guarded by at least one
\* access validator.
C13_UnguardedInterfaceRejected ==
    /\ \A int \in InterfacesOf(build.module) :
          Unguarded(int) =>
             /\ build.pc # "done"
             /\ ~(build.pc = "wiring" /\ build.position > Len(build.module.elements))
             /\ Emitted(build.controller.browserCode, "implementation", int) = {}
    /\ \A i \in DOMAIN build.controller.browserCode :
          build.controller.browserCode[i].kind = "implementation"
             => build.controller.browserCode[i].validators # <<>>

\* A build that threw in wireInterface on an interface with [RendererAPI] and
\* methods that are in order, but without a validator
C13_Witness ==
    /\ build.pc = "failed"
    /\ build.failedIn = "wiring"
    /\ \E int \in InterfacesOf(build.module) :
          /\ CountTags(int, "RendererAPI") = 1
          /\ CountTags(int, "Validator") = 0
          /\ \A m \in DOMAIN int.methods : int.methods[m].tags = <<>>
          /\ Emitted(build.controller.browserCode, "implementation", int) = {}

VariantTags == {"Sync", "Event", "Store", "NotImplemented"}

\* C20: a method tagged [Store] or [Event] that carries any other variant
\* tag as well is rejected: a module declaring such a method never has a
\* finished build.
C20_StoreAndEventExclusive ==
    \A int \in InterfacesOf(build.module) : \A m \in DOMAIN int.methods :
        LET tags == Range(int.methods[m].tags)
        IN  (tags \cap {"Store", "Event"} # {} /\ Cardinality(tags \cap VariantTags) > 1)
                => build.pc # "done"

\* Every place of the generated code that names a channel: which primitive of
\* which method of which interface it belongs to, and the channel it names
StoreSuffixes == <<"getState", "getStateSync", "update">>

ChannelUses(controller) ==
    UNION {
        {[interface |-> impl.name, method |-> h.method, channel |-> h.channel,
          primitive |-> IF ~h.store THEN "call"
                        ELSE IF h.transport = "on" THEN "getStateSync" ELSE "getState"] :
            h \in Range(impl.handlers)}
        \cup {[interface |-> impl.name, method |-> d.method, channel |-> d.channel,
               primitive |-> IF d.kind = "update" THEN "update" ELSE "event"] :
            d \in Range(impl.dis)} :
        impl \in {a \in Range(controller.browserCode) : a.kind = "implementation"}}
    \cup UNION {
        UNION {{[interface |-> def.name, method |-> stub.method, channel |-> stub.channels[i],
                 primitive |-> IF stub.kind = "store" THEN StoreSuffixes[i]
                               ELSE IF stub.kind = "subscribe" THEN "event" ELSE "call"] :
                    i \in DOMAIN stub.channels} :
               stub \in Range(def.stubs)} :
        def \in {a \in Range(controller.preloadCode) : a.kind = "definition"}}

\* C16: within one build the channel identifier is a function of the
\* interface name, the method name and the primitive (call or event, or the
\* store suffix), the module name being the same throughout: the two ends of
\* one primitive name the same channel, and two distinct primitives never
\* name the same channel.
C16_ChannelsCollisionFree ==
    \A u, v \in ChannelUses(build.controller) :
        (u.channel = v.channel) <=>
            (u.interface = v.interface /\ u.method = v.method /\ u.primitive = v.primitive)

\* A finished build of two interfaces, a and a_, with a method _a of the first
\* and a method a of the second wired, and a store with its three channels
C16_Witness ==
    /\ build.pc = "done"
    /\ \E u, v, w \in ChannelUses(build.controller) :
          /\ u.interface = "a" /\ u.method = "_a" /\ u.primitive = "call"
          /\ v.interface = "a_" /\ v.method = "a" /\ v.primitive = "call"
          /\ w.interface = "a" /\ w.method = "a" /\ w.primitive = "update"

\* Every defect of a module, each found on its own: the names declared twice
\* or taken from the primitives, what validateModule collects, and the tag
\* errors of the interfaces and of their methods
Defects(module) ==
    ({FirstPassError(module, i) : i \in DOMAIN module.elements} \ {NoError})
    \cup Range(validateModule(module, FirstPass(module).allowedTypes))
    \cup ({interfaceTagInfo(int).error : int \in InterfacesOf(module)} \ {NoError})
    \cup (UNION {{methodTagInfo(int.methods[m]).error : m \in DOMAIN int.methods} :
                    int \in InterfacesOf(module)} \ {NoError})

\* C17: semantic errors are accumulated.  When a build fails, its one
\* failure reports every defect of the module, of whatever kind.
C17_ErrorsAccumulated ==
    build.pc = "failed" => \A d \in Defects(build.module) : d \in Range(build.errors)

DuplicateDeclaration == {"Duplicate definition", "Cannot redeclare built-in primitive type"}

\* The names a module declares more than once or takes from the primitives
RedeclaredNames(module) ==
    {module.elements[i].name :
        i \in {j \in DOMAIN module.elements : FirstPassError(module, j) # NoError}}

\* C18: every name that is declared twice (by declarations of any kinds) or
\* that is a built-in primitive makes the build fail with a
\* DuplicateDeclaration error for that name, raised exactly once.
C18_DuplicateRaisedOnce ==
    build.pc \in {"done", "failed"} =>
        \A name \in RedeclaredNames(build.module) :
            /\ build.pc = "failed"
            /\ Cardinality({i \in DOMAIN build.errors :
                    /\ build.errors[i].kind \in DuplicateDeclaration
                    /\ build.errors[i].about = <<name>>}) = 1

\* C19: an event method with a return type is rejected before any code is
\* synthesized.  When the build fails with that error, the Controller holds
\* no predicate, no access validator and no dispatcher.
C19_EventReturnRejectedBeforeSynthesis ==
    (/\ build.pc = "failed"
     /\ \E i \in DOMAIN build.errors :
           build.errors[i].kind = "tagged with [Event] but has a return type")
        => build.controller = EmptyController

\* The enum declarations the Controller holds
EnumDeclarations(controller) == {a \in Range(controller.commonCode) : a.kind = "enum"}

ValidatorsOf(module) ==
    {module.elements[i] : i \in {j \in DOMAIN module.elements : module.elements[j].type = "Validator"}}

\* The equality conditions of a grammar, at any depth
RECURSIVE EqualityNodes(_)
EqualityNodes(g) ==
    CASE g.type \in {"ValidatorAnd", "ValidatorOr"} ->
            UNION {EqualityNodes(g.conditions[i]) : i \in DOMAIN g.conditions}
      [] g.type = "ValidatorIs" -> {g}
      [] OTHER -> {}

LiteralType(value) == IF value.type = "StringValue" THEN "String" ELSE "Boolean"

\* An equality of a declared variable with a literal of the other type
Mismatched(node) ==
    node.subject \in DOMAIN variables /\ variables[node.subject].type # LiteralType(node.value)

C25_EnvironmentBranch ==
    \A v \in ValidatorsOf(build.module) :
        v.grammar.type = "ValidatorStructure" =>
            LET wanted == IF build.env.EIPC_ENV # "" THEN build.env.EIPC_ENV
                          ELSE IF build.env.NODE_ENV # "" THEN build.env.NODE_ENV
                          ELSE "production"
                named == {i \in DOMAIN v.grammar.options : v.grammar.options[i].name = wanted}
            IN  /\ \A a \in Emitted(build.controller.browserCode, "eventValidator", v) :
                      \E i \in named : a.condition = buildGrammar(v.grammar.options[i].grammar, "browser")
                /\ named = {} =>
                      /\ build.pc # "done"
                      /\ build.pc = "failed" =>
                            \A i \in DOMAIN v.grammar.options :
                                \E e \in Range(build.errors) :
                                    v.grammar.options[i].name \in Range(e.about)


(***************************************************************************)
(* SpecGenerate: calls of generateWiring on a wiring folder that the user  *)
(* may have made and filled before.                                        *)
(***************************************************************************)
OutsideFolder ==
    <<calls, hook, fetch, pushes, counterValue, pushCount, listeners, subs, delivered,
      sent, bridged, build, tracing, registry>>

UserFiles == {"important-file.ts", "notes.md", Marker}

\* The modules of the schema folder: one that builds and one that does not
SchemaModules ==
    { Module("m", <<TrustedAppValidator,
                    InterfaceElement("a", <<TagAPI, TagValidator("TrustedApp")>>,
                                     <<Method("a", <<>>, <<StringArgument>>, NumberReturn)>>)>>),
      Module("m", <<InterfaceElement("a", <<TagAPI>>, <<>>)>>) }

Running == folder.pc \in {"parsed", "wiped", "writing"}

\* Somebody makes the folder, or puts a file in it, outside of a call
UserMakesFolder ==
    /\ ~Running /\ ~folder.exists
    /\ folder' = [folder EXCEPT !.exists = TRUE]
    /\ UNCHANGED OutsideFolder

UserWritesFile(file) ==
    /\ ~Running /\ folder.exists
    /\ folder' = [folder EXCEPT !.files = @ \cup {file}]
    /\ UNCHANGED OutsideFolder

\* generateWiring(opts) is called
StartGenerate(parsed, module) ==
    /\ ~Running
    /\ folder' = ParseSchemas(folder, parsed, module)
    /\ UNCHANGED OutsideFolder

WipeStep ==
    /\ folder.pc = "parsed"
    /\ folder' = WipeWiringFolder(folder)
    /\ UNCHANGED OutsideFolder

MakeStep ==
    /\ folder.pc = "wiped"
    /\ folder' = MakeWiringFolder(folder)
    /\ UNCHANGED OutsideFolder

WriteStep ==
    /\ folder.pc = "writing"
    /\ folder' = WriteWiring(folder)
    /\ UNCHANGED OutsideFolder

NextGenerate ==
    \/ UserMakesFolder
    \/ \E file \in UserFiles : UserWritesFile(file)
    \/ \E parsed \in BOOLEAN, module \in SchemaModules : StartGenerate(parsed, module)
    \/ WipeStep
    \/ MakeStep
    \/ WriteStep

SpecGenerate == Init /\ [][NextGenerate]_vars

(***************************************************************************)
(* SpecImpl: setImplementation is called on targets, and messages arrive   *)
(* on the channels of the interface.                                       *)
(***************************************************************************)
OutsideRegistry ==
    <<calls, hook, fetch, pushes, counterValue, pushCount, listeners, subs, delivered,
      sent, bridged, build, tracing, folder>>

Channels == {Handlers[k].channel : k \in DOMAIN Handlers}

\* TestAPI.for(target).setImplementation(impl), with the next implementation
SetImplementation(target) ==
    /\ registry.sets[target] < MaxImpls
    /\ registry' = [registry EXCEPT
            !.sets[target] = @ + 1,
            !.ipc[target] = setImplementation(@, registry.sets[target] + 1)]
    /\ UNCHANGED OutsideRegistry

\* A message of the renderer arrives on a channel of a target
IncomingCall(target, channel) ==
    /\ registry' = [registry EXCEPT
            !.served = [target |-> target, channel |-> channel,
                        by |-> ServedBy(registry.ipc[target].regs, channel),
                        latest |-> registry.sets[target]]]
    /\ UNCHANGED OutsideRegistry

NextImpl ==
    \/ \E target \in Targets : SetImplementation(target)
    \/ \E target \in Targets, channel \in Channels : IncomingCall(target, channel)

SpecImpl == Init /\ [][NextImpl]_vars

(***************************************************************************)
(* Properties of the subtypes, under SpecSubType and SpecCompile.          *)
(***************************************************************************)
\* The parent a schema declares for a name, "" when it declares no such subtype
ParentIn(schema, name) ==
    IF FindSubType(schema, name) = 0 THEN ""
    ELSE schema.elements[FindSubType(schema, name)].parent

\* The names met by following the parents of a name for up to n steps
RECURSIVE Chain(_, _, _)
Chain(schema, name, n) ==
    IF n = 0 \/ ParentIn(schema, name) = "" THEN {}
    ELSE {ParentIn(schema, name)} \cup Chain(schema, ParentIn(schema, name), n - 1)

ChainOf(schema, name) == Chain(schema, name, Len(schema.elements) + 1)
OnCycle(schema, name) == name \in ChainOf(schema, name)
HasCycle(schema, name) == \E n \in {name} \cup ChainOf(schema, name) : OnCycle(schema, n)
RootsOf(schema, name) == ChainOf(schema, name) \cap basePrimitives

\* C21: tracing a subtype to its root primitive takes at most one step per
\* declaration of the schema; a chain that ends in a primitive is resolved to
\* that primitive and never fails; a chain with a cycle is never resolved and
\* fails with the cycle error, which names a subtype that is on the cycle.
C21_RootResolution ==
    LET schema == tracing.schema
        name == tracing.subType
    IN  tracing.pc # "idle" =>
            /\ tracing.steps <= Len(schema.elements)
            /\ tracing.pc = "resolved" =>
                    ~HasCycle(schema, name) /\ RootsOf(schema, name) = {tracing.basePrimitive}
            /\ (tracing.pc = "failed" /\ HasCycle(schema, name)) =>
                    /\ tracing.error.kind = "has no resolvable base type, we encountered a cycle"
                    /\ \E i \in DOMAIN tracing.error.about :
                          OnCycle(schema, tracing.error.about[i])
            /\ tracing.pc = "failed" => RootsOf(schema, name) = {}

\* The restriction kinds that apply to a root primitive
AppliesTo(kind, root) ==
    \/ root = "string" /\ kind \in {"minLength", "maxLength", "startsWith", "endsWith"}
    \/ root = "number" /\ kind \in {"minValue", "maxValue"}

SubTypesOf(module) ==
    {module.elements[i] : i \in {j \in DOMAIN module.elements : module.elements[j].type = "SubType"}}

\* The subtype whose wiring has thrown the "Unsupported subType refiner" error
RefusedSubType ==
    /\ build.pc = "failed" /\ build.failedIn = "wiring"
    /\ build.module.elements[build.position].type = "SubType"
    /\ build.errors[1].kind = "Unsupported subType refiner"

\* C22: a finished build holds only subtypes whose every restriction is of a
\* kind that applies to the root primitive of the parent chain; and a subtype
\* is refused as unsupported only for a restriction of its own whose kind does
\* not apply to that root, whatever its immediate parent is, and then no
\* declaration and no predicate of it has been emitted.
C22_RestrictionsApplyToRoot ==
    /\ build.pc = "done" =>
          \A sub \in SubTypesOf(build.module) :
              \A i \in DOMAIN sub.restrictions :
                  \E root \in RootsOf(build.module, sub.name) :
                      AppliesTo(sub.restrictions[i].name, root)
    /\ RefusedSubType =>
          LET sub == build.module.elements[build.position]
          IN  /\ \E i \in DOMAIN sub.restrictions :
                    /\ sub.restrictions[i].name = build.errors[1].about[1]
                    /\ \A root \in RootsOf(build.module, sub.name) :
                          ~AppliesTo(sub.restrictions[i].name, root)
              /\ \A a \in Range(build.controller.commonCode) : a.name # sub.name

\* A subtype of another subtype is refused for a restriction that does not
\* apply to the root of the chain
C22_Witness ==
    /\ RefusedSubType
    /\ build.module.elements[build.position].parent \notin basePrimitives
    /\ RootsOf(build.module, build.module.elements[build.position].name) = {"string"}

(***************************************************************************)
(* Properties of generateWiring, under SpecGenerate.                       *)
(***************************************************************************)
\* C28: a call of generateWiring that finds the wiring folder there and
\* without the marker file, empty or not, fails, and every file that was in
\* the folder is still in it.
C28_UnmarkedFolderKept ==
    (folder.pc # "idle" /\ folder.before.exists /\ Marker \notin folder.before.files) =>
        /\ folder.pc \in {"parsed", "failed"}
        /\ folder.exists
        /\ folder.before.files \subseteq folder.files

(***************************************************************************)
(* Properties of setImplementation, under SpecImpl.                        *)
(***************************************************************************)
\* C30: on every target every channel of the interface holds at most one
\* handler; once setImplementation was called on a target every channel
\* holds the handler of the latest implementation and the call did not throw;
\* and a message is served by the latest implementation only, once.
C30_OneHandlerPerChannel ==
    /\ \A target \in Targets :
          LET regs == registry.ipc[target].regs
          IN  /\ ~registry.ipc[target].thrown
              /\ \A channel \in Channels : Len(ServedBy(regs, channel)) <= 1
              /\ registry.sets[target] > 0 =>
                    \A channel \in Channels :
                        ServedBy(regs, channel) = <<registry.sets[target]>>
    /\ registry.served.latest > 0 => registry.served.by = <<registry.served.latest>>

\* A message was served on a target whose implementation was set twice
C30_Witness ==
    /\ registry.served.latest >= 2
    /\ registry.served.by = <<registry.served.latest>>
    /\ registry.sets[registry.served.target] = registry.served.latest

(***************************************************************************)
(* The store hook and its initial fetch, under SpecHook.                   *)
(***************************************************************************)
\* C29: once the mounted hook shows a value that a push delivered, the
\* initial fetch that completes later does not replace what the hook shows.
C29_PushNotReplaced ==
    [][(/\ FetchArrives /\ Mounted
        /\ hook.storeState.state = "ready"
        /\ InvokeStub(fetch.reply).kind = "return")
          => hook'.storeState = hook.storeState]_vars

(***************************************************************************)
(* Properties of the type references and of the record predicates, under   *)
(* SpecCompile.                                                            *)
(***************************************************************************)
\* The names a property type refers to, at any depth
RECURSIVE ReferencesIn(_)
ReferencesIn(propType) ==
    CASE PropertyKind(propType) = "TypeReference" -> {propType.reference}
      [] PropertyKind(propType) = "StructureBlock" ->
            UNION {ReferencesIn(propType.properties[p].type) : p \in DOMAIN propType.properties}
      [] PropertyKind(propType) = "KeyValueBlock" -> ReferencesIn(propType.type)

\* Every type reference of a module: of the arguments and the return types of
\* its methods, and of the fields of its records
TypeReferences(module) ==
    UNION { IF module.elements[i].type = "Interface"
            THEN UNION { {m.arguments[a].type.reference : a \in DOMAIN m.arguments}
                         \cup (IF m.returnType.present THEN {m.returnType.type.reference} ELSE {}) :
                         m \in Range(module.elements[i].methods) }
            ELSE IF module.elements[i].type = "Structure"
            THEN ReferencesIn(StructureBlock(module.elements[i].properties))
            ELSE {} : i \in DOMAIN module.elements }

\* The built-in primitives and the names of the declared types
DeclaredTypes(module) ==
    PRIMITIVES \cup {module.elements[i].name :
                        i \in {j \in DOMAIN module.elements :
                                 module.elements[j].type \in
                                    {"Enum", "Structure", "SubType", "ZodReference"}}}

\* C27: a module is built only when every type reference in it is a built-in
\* primitive or the name of a declared enum, record, subtype or external
\* schema reference; a module with another reference fails validation with an
\* error that names the reference.
C27_TypeReferencesResolve ==
    /\ build.pc = "done" => TypeReferences(build.module) \subseteq DeclaredTypes(build.module)
    /\ (build.pc = "failed" /\ build.failedIn = "validating") =>
          \A r \in TypeReferences(build.module) \ DeclaredTypes(build.module) :
              \E i \in DOMAIN build.errors :
                  build.errors[i].kind = "Type is not defined" /\ build.errors[i].about[1] = r

\* The record validators a finished build has emitted
RecordValidators ==
    {a \in Range(build.controller.commonRuntimeCode) :
        a.kind = "validator" /\ "properties" \in DOMAIN a}

WithField(name, value) == JSObject([n \in {name} |-> value])
WithoutFields == JSObject(<<>>)

AcceptsMissing(a) ==
    StructureBlockValidator(StructureBlock(a.properties), WithoutFields,
                            build.controller.commonRuntimeCode)
AcceptsNull(a) ==
    StructureBlockValidator(StructureBlock(a.properties), WithField(a.properties[1].name, JSNull),
                            build.controller.commonRuntimeCode)
\* The field type whose check always passes
AlwaysPasses(type) == type = TypeRef("unknown", FALSE)

====
